---- MODULE Spec2Model ----
(***************************************************************************)
(* A model of the kube-dns record engine (pkg/dns/dns.go, pkg/dns/util).   *)
(*                                                                         *)
(* State: the informer stores (servicesStore, endpointsStore), the record  *)
(* cache (cache), the reverse index (reverseRecordMap) and the cluster-IP  *)
(* index (clusterIPServiceMap), the cacheLock, and the position of every   *)
(* handler and query goroutine.                                            *)
(*                                                                         *)
(* Names are Go strings.  strings.Join is modelled on TLC strings with \o; *)
(* strings.Split cannot be computed on TLC strings, so a query name is     *)
(* given as the sequence of its labels (the value Records has after        *)
(* strings.Split(strings.TrimRight(name, "."), ".")).                      *)
(***************************************************************************)
EXTENDS Integers, Sequences, FiniteSets, TLC

(***************************************************************************)
(* Bounds of the model.                                                    *)
(***************************************************************************)
MaxClusterIPs == 2
MaxPodIPs == 2

\* the events that an informer delivers in a run of SpecConc
MaxEvents == 2

(***************************************************************************)
(* Program constants.                                                      *)
(***************************************************************************)
serviceSubdomain == "svc"
podSubdomain == "pod"
ArpaSuffix == ".in-addr.arpa."
defaultPriority == 10
defaultWeight == 10
defaultTTL == 30
ClusterIPNone == "None"
ServiceTypeExternalName == "ExternalName"
ServiceTypeClusterIP == "ClusterIP"

\* Go's nil, for a missing object
None == [nil |-> TRUE]

(***************************************************************************)
(* util.go helpers                                                         *)
(***************************************************************************)
ReverseArray(arr) == [i \in 1..Len(arr) |-> arr[Len(arr) - i + 1]]

RECURSIVE Join(_, _)
Join(elems, sep) ==
  IF Len(elems) = 0 THEN ""
  ELSE IF Len(elems) = 1 THEN elems[1]
  ELSE elems[1] \o sep \o Join(Tail(elems), sep)

NewServiceRecord(ip, port) ==
  [Host |-> ip, Port |-> port, Priority |-> defaultPriority,
   Weight |-> defaultWeight, Ttl |-> defaultTTL]

\* fnv32a over the %v rendering of the message: a label that is a function of
\* the message's fields and differs between different messages.
HashServiceRecord(msg) ==
  "h(" \o msg.Host \o " " \o ToString(msg.Port) \o " " \o ToString(msg.Priority)
       \o " " \o ToString(msg.Weight) \o " " \o ToString(msg.Ttl) \o ")"

GetSkyMsg(ip, port) ==
  LET msg == NewServiceRecord(ip, port)
  IN  [msg |-> msg, label |-> HashServiceRecord(msg)]

IsServiceIPSet(service) ==
  service.ClusterIP # ClusterIPNone /\ service.ClusterIP # ""

GetClusterIPs(service) ==
  IF Len(service.ClusterIPs) > 0 THEN service.ClusterIPs
  ELSE <<service.ClusterIP>>

\* dns.Fqdn of miekg/dns: append the root dot unless it is already there.  No
\* name built by this program ends in a dot before Fqdn is applied.
Fqdn(s) == s \o "."

Range(s) == {s[i] : i \in 1..Len(s)}

(***************************************************************************)
(* The authoritative domain.                                               *)
(***************************************************************************)
domainLabels == <<"cluster", "local">>
domain == Join(domainLabels, ".")
domainPath == ReverseArray(domainLabels)

(***************************************************************************)
(* treecache.TreeCache.  A cache is the set of its nodes, each named by    *)
(* its label path from the root, and the set of its leaf entries.          *)
(***************************************************************************)
NewTreeCache == [nodes |-> {<<>>}, entries |-> {}]

IsPrefix(p, q) == Len(p) <= Len(q) /\ \A i \in 1..Len(p) : p[i] = q[i]

Prefixes(p) == {SubSeq(p, 1, n) : n \in 0..Len(p)}

ensureChildNode(c, path) == [c EXCEPT !.nodes = @ \cup Prefixes(path)]

SetEntry(c, key, val, fqdn, path) ==
  LET c1 == ensureChildNode(c, path)
  IN  [c1 EXCEPT !.entries =
         {e \in @ : ~(e.path = path /\ e.key = key)}
           \cup {[path |-> path, key |-> key, val |-> val, fqdn |-> fqdn]}]

SetSubCache(c, key, subCache, path) ==
  LET target == Append(path, key)
      c1 == ensureChildNode(c, path)
  IN  [nodes |-> {n \in c1.nodes : ~IsPrefix(target, n)}
                   \cup {target \o n : n \in subCache.nodes},
       entries |-> {e \in c1.entries : ~IsPrefix(target, e.path)}
                   \cup {[e EXCEPT !.path = target \o e.path] : e \in subCache.entries}]

GetEntry(c, key, path) ==
  LET hits == {e \in c.entries : e.path = path /\ e.key = key}
  IN  IF hits = {} THEN None ELSE (CHOOSE e \in hits : TRUE).val

Matches(pattern, p) ==
  /\ Len(pattern) <= Len(p)
  /\ \A i \in 1..Len(pattern) : pattern[i] = "*" \/ pattern[i] = p[i]

GetValuesForPathWithWildcards(c, path) ==
  {e.val : e \in {x \in c.entries : Matches(path, x.path)}}

\* a node is empty when it has no child node and no leaf entry
IsEmptyNode(c, n) ==
  /\ ~\E m \in c.nodes : m # n /\ IsPrefix(n, m)
  /\ ~\E e \in c.entries : e.path = n

RECURSIVE Prune(_, _)
Prune(c, n) ==
  IF Len(n) = 0 \/ n \notin c.nodes \/ ~IsEmptyNode(c, n) THEN c
  ELSE Prune([c EXCEPT !.nodes = @ \ {n}], SubSeq(n, 1, Len(n) - 1))

DeletePath(c, path) ==
  IF Len(path) = 0 THEN c
  ELSE LET parent == SubSeq(path, 1, Len(path) - 1)
           name == path[Len(path)]
       IN  IF path \in c.nodes
           THEN Prune([nodes |-> {n \in c.nodes : ~IsPrefix(path, n)},
                       entries |-> {e \in c.entries : ~IsPrefix(path, e.path)}],
                      parent)
           ELSE IF \E e \in c.entries : e.path = parent /\ e.key = name
           THEN Prune([c EXCEPT !.entries =
                         {e \in @ : ~(e.path = parent /\ e.key = name)}],
                      parent)
           ELSE c

(***************************************************************************)
(* The objects the informers deliver.                                      *)
(***************************************************************************)
Namespace == "prod"
SvcNames == {"db"}
Hostnames == {"db-0"}

\* kcache.MetaNamespaceKeyFunc
MetaNamespaceKeyFunc(obj) == obj.Namespace \o "/" \o obj.Name

Keys == {Namespace \o "/" \o n : n \in SvcNames}

ServicePorts ==
  <<[Name |-> "http", Protocol |-> "TCP", Port |-> 80],
    [Name |-> "", Protocol |-> "TCP", Port |-> 443],
    [Name |-> "dns", Protocol |-> "", Port |-> 53]>>

EndpointPorts == <<[Name |-> "sql", Protocol |-> "TCP", Port |-> 5432]>>

ClusterIPName(i) == "10.0.0." \o ToString(i)

PodIPName(i) == "10.1.0." \o ToString(i)

\* the cluster IP lists of a cluster-IP service: one address, or two (dual stack)
ClusterIPLists ==
  {<<ClusterIPName(i)>> : i \in 1..MaxClusterIPs}
    \cup {<<ClusterIPName(p[1]), ClusterIPName(p[2])>> :
            p \in {q \in (1..MaxClusterIPs) \X (1..MaxClusterIPs) : q[1] < q[2]}}

ExternalNameServices ==
  {[Name |-> n, Namespace |-> Namespace, Type |-> ServiceTypeExternalName,
    ClusterIP |-> "", ClusterIPs |-> <<>>, Ports |-> <<>>,
    ExternalName |-> "example.com"] : n \in SvcNames}

HeadlessServices ==
  {[Name |-> n, Namespace |-> Namespace, Type |-> ServiceTypeClusterIP,
    ClusterIP |-> ClusterIPNone, ClusterIPs |-> <<ClusterIPNone>>,
    Ports |-> ServicePorts, ExternalName |-> ""] : n \in SvcNames}

PortalServices ==
  {[Name |-> n, Namespace |-> Namespace, Type |-> ServiceTypeClusterIP,
    ClusterIP |-> ips[1], ClusterIPs |-> ips,
    Ports |-> ServicePorts, ExternalName |-> ""] :
      n \in SvcNames, ips \in ClusterIPLists}

Services == ExternalNameServices \cup HeadlessServices \cup PortalServices

HostnameOptions == Hostnames \cup {""}

\* the address lists of a subset: one address, or two with different IPs
AddressLists ==
  {<<[IP |-> PodIPName(i), Hostname |-> h]>> : i \in 1..MaxPodIPs, h \in HostnameOptions}
    \cup {<<[IP |-> PodIPName(p[1]), Hostname |-> h[1]],
            [IP |-> PodIPName(p[2]), Hostname |-> h[2]]>> :
            p \in {q \in (1..MaxPodIPs) \X (1..MaxPodIPs) : q[1] < q[2]},
            h \in HostnameOptions \X HostnameOptions}

SubsetLists ==
  {<<>>} \cup {<<[Addresses |-> as, Ports |-> EndpointPorts]>> : as \in AddressLists}

EndpointsObjects ==
  {[Name |-> n, Namespace |-> Namespace, Subsets |-> ss] :
     n \in SvcNames, ss \in SubsetLists}

(***************************************************************************)
(* Record synthesis (dns.go).  The handlers build their records before     *)
(* they take cacheLock (Stage...) and install them while they hold it      *)
(* (Apply...).  K is the locked state: [cache, rev, cip] for kd.cache,     *)
(* kd.reverseRecordMap and kd.clusterIPServiceMap.                         *)
(***************************************************************************)
\* strings.ToLower on the protocols of the API (v1.Protocol)
ToLower(s) ==
  CASE s = "TCP" -> "tcp"
    [] s = "UDP" -> "udp"
    [] s = "SCTP" -> "sctp"
    [] OTHER -> s

MapDelete(m, k) == [x \in DOMAIN m \ {k} |-> m[x]]

MapDeleteAll(m, ks) == [x \in DOMAIN m \ ks |-> m[x]]

MapPut(m, k, v) == [x \in DOMAIN m \cup {k} |-> IF x = k THEN v ELSE m[x]]

EmptyMap == [x \in {} |-> None]

fqdn(service, subpaths) ==
  Fqdn(Join(ReverseArray(domainPath \o <<serviceSubdomain, service.Namespace, service.Name>>
                           \o subpaths), "."))

getServiceFQDN(dom, service) ==
  Join(<<service.Name, service.Namespace, serviceSubdomain, dom>>, ".")

RECURSIVE prependLabels(_, _, _)
prependLabels(host, labels, i) ==
  IF i > Len(labels) THEN host
  ELSE prependLabels(labels[i] \o "." \o host, labels, i + 1)

generateSRVRecordValue(svc, portNumber, labels) ==
  LET host == Join(<<svc.Name, svc.Namespace, serviceSubdomain, domain>>, ".")
  IN  GetSkyMsg(prependLabels(host, labels, 1), portNumber).msg

getHostname(address) ==
  IF Len(address.Hostname) > 0
  THEN [name |-> address.Hostname, has |-> TRUE]
  ELSE [name |-> "", has |-> FALSE]

\* the SRV loop of newPortalService that skips no port
RECURSIVE portalSRV_AnyPort(_, _, _, _)
portalSRV_AnyPort(subCache, service, recordLabel, i) ==
  IF i > Len(service.Ports) THEN subCache
  ELSE LET port == service.Ports[i]
           srvValue == generateSRVRecordValue(service, port.Port, <<>>)
           l == <<"_" \o ToLower(port.Protocol), "_" \o port.Name>>
       IN  portalSRV_AnyPort(SetEntry(subCache, recordLabel, srvValue,
                                      fqdn(service, l \o <<recordLabel>>), l),
                             service, recordLabel, i + 1)

\* the SRV loop of newPortalService, from port i on
RECURSIVE portalSRV(_, _, _, _)
portalSRV(subCache, service, recordLabel, i) ==
  IF i > Len(service.Ports) THEN subCache
  ELSE LET port == service.Ports[i]
       IN  IF port.Name = "" \/ port.Protocol = ""
           THEN portalSRV(subCache, service, recordLabel, i + 1)
           ELSE LET srvValue == generateSRVRecordValue(service, port.Port, <<>>)
                    l == <<"_" \o ToLower(port.Protocol), "_" \o port.Name>>
                IN  portalSRV(SetEntry(subCache, recordLabel, srvValue,
                                       fqdn(service, l \o <<recordLabel>>), l),
                              service, recordLabel, i + 1)

\* the cluster IP loop of newPortalService, from address i on
RECURSIVE portalRecords(_, _, _, _)
portalRecords(subCache, service, clusterIPs, i) ==
  IF i > Len(clusterIPs) THEN subCache
  ELSE LET m == GetSkyMsg(clusterIPs[i], 0)
           withA == SetEntry(subCache, m.label, m.msg, fqdn(service, <<m.label>>), <<>>)
       IN  portalRecords(portalSRV(withA, service, m.label, 1), service, clusterIPs, i + 1)

StagePortal(service) ==
  LET clusterIPs == GetClusterIPs(service)
  IN  [kind |-> "portal",
       service |-> service,
       clusterIPs |-> clusterIPs,
       subCache |-> portalRecords(NewTreeCache, service, clusterIPs, 1),
       subCachePath |-> domainPath \o <<serviceSubdomain, service.Namespace>>,
       reverseRecord |-> GetSkyMsg(getServiceFQDN(domain, service), 0).msg]

ApplyPortal(K, st) ==
  [cache |-> SetSubCache(K.cache, st.service.Name, st.subCache, st.subCachePath),
   rev |-> [ip \in DOMAIN K.rev \cup Range(st.clusterIPs) |->
              IF ip \in Range(st.clusterIPs) THEN st.reverseRecord ELSE K.rev[ip]],
   cip |-> [ip \in DOMAIN K.cip \cup Range(st.clusterIPs) |->
              IF ip \in Range(st.clusterIPs) THEN st.service ELSE K.cip[ip]]]

newPortalService(K, service) == ApplyPortal(K, StagePortal(service))

\* the port loop of generateRecordsForHeadlessService, from port i on
RECURSIVE headlessSRV(_, _, _, _, _)
headlessSRV(subCache, svc, ports, endpointName, i) ==
  IF i > Len(ports) THEN subCache
  ELSE LET endpointPort == ports[i]
       IN  IF endpointPort.Name # "" /\ endpointPort.Protocol # ""
           THEN LET srvValue == generateSRVRecordValue(svc, endpointPort.Port, <<endpointName>>)
                    l == <<"_" \o ToLower(endpointPort.Protocol), "_" \o endpointPort.Name>>
                IN  headlessSRV(SetEntry(subCache, endpointName, srvValue,
                                         fqdn(svc, l \o <<endpointName>>), l),
                                svc, ports, endpointName, i + 1)
           ELSE headlessSRV(subCache, svc, ports, endpointName, i + 1)

\* the loops of generateRecordsForHeadlessService, from address subIdx of
\* subset idx on; g is [subCache, generatedRecords]
RECURSIVE headlessRecords(_, _, _, _, _)
headlessRecords(g, e, svc, idx, subIdx) ==
  IF idx > Len(e.Subsets) THEN g
  ELSE IF subIdx > Len(e.Subsets[idx].Addresses)
  THEN headlessRecords(g, e, svc, idx + 1, 1)
  ELSE LET address == e.Subsets[idx].Addresses[subIdx]
           endpointIP == address.IP
           m == GetSkyMsg(endpointIP, 0)
           hn == getHostname(address)
           endpointName == IF hn.has THEN hn.name ELSE m.label
           withA == SetEntry(g.subCache, endpointName, m.msg,
                             fqdn(svc, <<endpointName>>), <<>>)
           withSRV == headlessSRV(withA, svc, e.Subsets[idx].Ports, endpointName, 1)
           gen == IF hn.has
                  THEN MapPut(g.generatedRecords, endpointIP,
                              GetSkyMsg(fqdn(svc, <<endpointName>>), 0).msg)
                  ELSE g.generatedRecords
       IN  headlessRecords([subCache |-> withSRV, generatedRecords |-> gen],
                           e, svc, idx, subIdx + 1)

StageHeadless(e, svc) ==
  LET g == headlessRecords([subCache |-> NewTreeCache, generatedRecords |-> EmptyMap],
                           e, svc, 1, 1)
  IN  [kind |-> "headless",
       service |-> svc,
       subCache |-> g.subCache,
       generatedRecords |-> g.generatedRecords,
       subCachePath |-> domainPath \o <<serviceSubdomain, svc.Namespace>>]

ApplyHeadless(K, st) ==
  [cache |-> SetSubCache(K.cache, st.service.Name, st.subCache, st.subCachePath),
   rev |-> [ip \in DOMAIN K.rev \cup DOMAIN st.generatedRecords |->
              IF ip \in DOMAIN st.generatedRecords
              THEN st.generatedRecords[ip] ELSE K.rev[ip]],
   cip |-> K.cip]

generateRecordsForHeadlessService(K, e, svc) == ApplyHeadless(K, StageHeadless(e, svc))

StageExternalName(service) ==
  [kind |-> "external",
   service |-> service,
   recordValue |-> GetSkyMsg(service.ExternalName, 0).msg,
   cachePath |-> domainPath \o <<serviceSubdomain, service.Namespace>>,
   fqdn |-> fqdn(service, <<>>)]

ApplyExternalName(K, st) ==
  [K EXCEPT !.cache = SetEntry(@, st.service.Name, st.recordValue, st.fqdn, st.cachePath)]

newExternalNameService(K, service) == ApplyExternalName(K, StageExternalName(service))

StageNothing == [kind |-> "none"]

\* newHeadlessService that does not look for the endpoints of the service
StageNewHeadless_NoLookup(es, service) == StageNothing

\* newHeadlessService up to the call of generateRecordsForHeadlessService
StageNewHeadless(es, service) ==
  LET e == es[MetaNamespaceKeyFunc(service)]
  IN  IF e = None THEN StageNothing ELSE StageHeadless(e, service)

\* newService up to the first acquisition of cacheLock
StageNewService(es, service) ==
  IF service.Type = ServiceTypeExternalName THEN StageExternalName(service)
  ELSE IF ~IsServiceIPSet(service) THEN StageNewHeadless(es, service)
  ELSE StagePortal(service)

\* the region of a staged write that holds cacheLock
ApplyStaged(K, st) ==
  CASE st.kind = "portal" -> ApplyPortal(K, st)
    [] st.kind = "headless" -> ApplyHeadless(K, st)
    [] st.kind = "external" -> ApplyExternalName(K, st)
    [] OTHER -> K

newService(K, es, service) == ApplyStaged(K, StageNewService(es, service))

removeService(K, s) ==
  LET subCachePath == domainPath \o <<serviceSubdomain, s.Namespace, s.Name>>
      ips == IF IsServiceIPSet(s) THEN Range(GetClusterIPs(s)) ELSE {}
  IN  [cache |-> DeletePath(K.cache, subCachePath),
       rev |-> MapDeleteAll(K.rev, ips),
       cip |-> MapDeleteAll(K.cip, ips)]

IsFlip(old, new) ==
  (new.Type = ServiceTypeExternalName) # (old.Type = ServiceTypeExternalName)

\* updateService without the removal of the old records on a change of type
updateService_InPlace(K, es, old, new) == newService(K, es, new)

updateService(K, es, old, new) ==
  newService(IF IsFlip(old, new) THEN removeService(K, old) ELSE K, es, new)

(***************************************************************************)
(* Endpoints handlers.  ss is the content of kd.servicesStore.             *)
(***************************************************************************)
getServiceFromEndpoints(ss, e) == ss[MetaNamespaceKeyFunc(e)]

\* the addresses of all subsets of an endpoints object
AllAddresses(e) ==
  {e.Subsets[idx].Addresses[subIdx] :
     <<idx, subIdx>> \in {p \in (1..Len(e.Subsets)) \X (1..2) :
                            p[2] <= Len(e.Subsets[p[1]].Addresses)}}

NamedIPs(e) == {a.IP : a \in {x \in AllAddresses(e) : getHostname(x).has}}

\* addDNSUsingEndpoints up to the acquisition of cacheLock
StageAddDNS(ss, e) ==
  LET svc == getServiceFromEndpoints(ss, e)
  IN  IF svc = None THEN StageNothing
      ELSE IF IsServiceIPSet(svc) \/ svc.Type = ServiceTypeExternalName THEN StageNothing
      ELSE StageHeadless(e, svc)

handleEndpointAdd(K, ss, e) == ApplyStaged(K, StageAddDNS(ss, e))

\* handleEndpointUpdate up to its acquisition of cacheLock: whether the lock
\* is taken, and oldAddressMap
StageEndpointUpdate(ss, oldEndpoints, newEndpoints) ==
  LET svc == getServiceFromEndpoints(ss, oldEndpoints)
  IN  IF svc # None /\ ~IsServiceIPSet(svc)
      THEN [kind |-> "unreverse",
            oldAddressMap |-> NamedIPs(oldEndpoints) \ NamedIPs(newEndpoints)]
      ELSE StageNothing

\* the locked region of handleEndpointUpdate without its deletes
ApplyUnreverse_Keep(K, st) == K

ApplyUnreverse(K, st) ==
  IF st.kind = "unreverse"
  THEN [K EXCEPT !.rev = MapDeleteAll(@, st.oldAddressMap)]
  ELSE K

handleEndpointUpdate(K, ss, oldEndpoints, newEndpoints) ==
  handleEndpointAdd(ApplyUnreverse(K, StageEndpointUpdate(ss, oldEndpoints, newEndpoints)),
                    ss, newEndpoints)

\* handleEndpointDelete that does not look at the service
StageEndpointDelete_AnyService(ss, endpoints) ==
  [kind |-> "unreverse", oldAddressMap |-> NamedIPs(endpoints)]

\* handleEndpointDelete up to its acquisition of cacheLock
StageEndpointDelete(ss, endpoints) ==
  LET svc == getServiceFromEndpoints(ss, endpoints)
  IN  IF svc # None /\ ~IsServiceIPSet(svc)
      THEN [kind |-> "unreverse", oldAddressMap |-> NamedIPs(endpoints)]
      ELSE StageNothing

handleEndpointDelete(K, ss, endpoints) ==
  ApplyUnreverse(K, StageEndpointDelete(ss, endpoints))

(***************************************************************************)
(* The resolver: Records and what it calls.  A query name is the sequence  *)
(* of its labels, segments.  A result is [recs, err, nodes]: the set of    *)
(* payloads returned, the error ("" for nil), and kd.nodesStore after the  *)
(* call.                                                                   *)
(***************************************************************************)
ErrKeyNotFound == "KeyNotFound"
ErrInvalidIP == "Invalid IP Address"
ErrZoneRegion == "failed to obtain the cluster zone and region"
ErrFederationDomain == "not a valid domain name for federation"
NilDereference == "panic: nil pointer dereference"

\* the characters of the labels that the queries use
Chars(label) ==
  CASE label = "10-1-0-1" -> <<"1", "0", "-", "1", "-", "0", "-", "1">>
    [] label = "10-1-0-256" -> <<"1", "0", "-", "1", "-", "0", "-", "2", "5", "6">>
    [] label = "10-1-0" -> <<"1", "0", "-", "1", "-", "0">>
    [] label = "10--0-1" -> <<"1", "0", "-", "-", "0", "-", "1">>
    [] label = "1-2-3-4-5" -> <<"1", "-", "2", "-", "3", "-", "4", "-", "5">>
    [] label = "db-0" -> <<"d", "b", "-", "0">>
    [] label = "255-0-0-9" -> <<"2", "5", "5", "-", "0", "-", "0", "-", "9">>
    [] label = "" -> <<>>
    [] label = "10" -> <<"1", "0">>
    [] label = "255" -> <<"2", "5", "5">>
    [] label = ".in-addr.arpa." ->
         <<".", "i", "n", "-", "a", "d", "d", "r", ".", "a", "r", "p", "a", ".">>
    [] label = ".in-addr.arpa" ->
         <<".", "i", "n", "-", "a", "d", "d", "r", ".", "a", "r", "p", "a">>
    [] label = ".ip6.arpa." -> <<".", "i", "p", "6", ".", "a", "r", "p", "a", ".">>
    [] label = "db" -> <<"d", "b">>
    [] label = "web" -> <<"w", "e", "b">>
    [] label = "0db" -> <<"0", "d", "b">>
    [] label = "db-" -> <<"d", "b", "-">>
    [] label = "prod" -> <<"p", "r", "o", "d">>
    [] label = "Prod" -> <<"P", "r", "o", "d">>
    [] label = "0" -> <<"0">>
    [] label = "myfed" -> <<"m", "y", "f", "e", "d">>
    [] label = "fed2" -> <<"f", "e", "d", "2">>
    [] label = "-fed" -> <<"-", "f", "e", "d">>
    [] label = "svc" -> <<"s", "v", "c">>
    [] label = "pod" -> <<"p", "o", "d">>
    [] label = "cluster" -> <<"c", "l", "u", "s", "t", "e", "r">>
    [] label = "local" -> <<"l", "o", "c", "a", "l">>
    [] label = "example.com" -> <<"e", "x", "a", "m", "p", "l", "e", ".", "c", "o", "m">>
    [] label = "fed.example.com" ->
         <<"f", "e", "d", ".", "e", "x", "a", "m", "p", "l", "e", ".", "c", "o", "m">>
    [] label = "example_com" -> <<"e", "x", "a", "m", "p", "l", "e", "_", "c", "o", "m">>
    [] label = "example..com" ->
         <<"e", "x", "a", "m", "p", "l", "e", ".", ".", "c", "o", "m">>
    [] label = "10.0.0.10" -> <<"1", "0", ".", "0", ".", "0", ".", "1", "0">>
    [] label = "10.0.0.10:5353" ->
         <<"1", "0", ".", "0", ".", "0", ".", "1", "0", ":", "5", "3", "5", "3">>
    [] label = "10.0.0.10:0" -> <<"1", "0", ".", "0", ".", "0", ".", "1", "0", ":", "0">>
    [] label = "10.0.0.10:65536" ->
         <<"1", "0", ".", "0", ".", "0", ".", "1", "0", ":", "6", "5", "5", "3", "6">>
    [] label = "ns:53" -> <<"n", "s", ":", "5", "3">>
    [] OTHER -> <<label>>

RECURSIVE Concat(_)
Concat(cs) == IF Len(cs) = 0 THEN "" ELSE cs[1] \o Concat(Tail(cs))

\* strings.Replace(s, old, new, -1) on the characters of s
Replace(cs, old, new) == [i \in 1..Len(cs) |-> IF cs[i] = old THEN new ELSE cs[i]]

\* strings.Split(s, sep) on the characters of s; cur is the field being read
RECURSIVE SplitChars(_, _, _)
SplitChars(cs, sep, cur) ==
  IF Len(cs) = 0 THEN <<cur>>
  ELSE IF cs[1] = sep THEN <<cur>> \o SplitChars(Tail(cs), sep, <<>>)
  ELSE SplitChars(Tail(cs), sep, Append(cur, cs[1]))

Digits == <<"0", "1", "2", "3", "4", "5", "6", "7", "8", "9">>

DigitValue(c) == (CHOOSE i \in 1..10 : Digits[i] = c) - 1

RECURSIVE Decimal(_, _)
Decimal(cs, acc) ==
  IF Len(cs) = 0 THEN acc ELSE Decimal(Tail(cs), 10 * acc + DigitValue(cs[1]))

\* net.ParseIP on a text without ':' : four decimal fields of at most three
\* digits, each at most 255 and without a leading zero
ParseIP(cs) ==
  LET fields == SplitChars(cs, ".", <<>>)
      ok(f) == /\ Len(f) \in 1..3
               /\ \A i \in 1..Len(f) : f[i] \in Range(Digits)
               /\ Len(f) > 1 => f[1] # "0"
               /\ Decimal(f, 0) <= 255
  IN  Len(fields) = 4 /\ \A i \in 1..4 : ok(fields[i])

\* strings.HasSuffix on the characters of s
HasSuffix(cs, suffix) ==
  /\ Len(cs) >= Len(suffix)
  /\ SubSeq(cs, Len(cs) - Len(suffix) + 1, Len(cs)) = suffix

\* util.ExtractIP without the reversal of the segments
ExtractIP_NoReverse(reverseName) ==
  IF ~HasSuffix(reverseName, Chars(ArpaSuffix)) THEN [ip |-> "", ok |-> FALSE]
  ELSE LET search == SubSeq(reverseName, 1, Len(reverseName) - Len(Chars(ArpaSuffix)))
           split == SplitChars(search, ".", <<>>)
           segments == [i \in 1..Len(split) |-> Concat(split[i])]
       IN  [ip |-> Join(segments, "."), ok |-> TRUE]

\* util.ExtractIP; reverseName is given by its characters
ExtractIP(reverseName) ==
  IF ~HasSuffix(reverseName, Chars(ArpaSuffix)) THEN [ip |-> "", ok |-> FALSE]
  ELSE LET search == SubSeq(reverseName, 1, Len(reverseName) - Len(Chars(ArpaSuffix)))
           split == SplitChars(search, ".", <<>>)
           segments == ReverseArray([i \in 1..Len(split) |-> Concat(split[i])])
       IN  [ip |-> Join(segments, "."), ok |-> TRUE]

isPodRecord(path) ==
  /\ Len(path) = Len(domainPath) + 3
  /\ path[Len(domainPath) + 1] = podSubdomain
  /\ \A i \in 1..Len(path) : path[i] # "*"

\* getPodIP without the replacement of the dashes
getPodIP_NoReplace(path) ==
  LET ipStr == path[Len(path)]
      ip == Chars(ipStr)
  IN  IF ParseIP(ip) THEN [ip |-> Concat(ip), err |-> ""]
      ELSE [ip |-> "", err |-> ErrInvalidIP]

getPodIP(path) ==
  LET ipStr == path[Len(path)]
      ip == Replace(Chars(ipStr), "-", ".")
  IN  IF ParseIP(ip) THEN [ip |-> Concat(ip), err |-> ""]
      ELSE [ip |-> "", err |-> ErrInvalidIP]

\* getRecordsForPath; takes cacheLock for reading unless the path is a pod path
getRecordsForPath(K, path, exact) ==
  IF isPodRecord(path)
  THEN LET p == getPodIP(path)
       IN  IF p.err = "" THEN [recs |-> {GetSkyMsg(p.ip, 0).msg}, err |-> ""]
           ELSE [recs |-> {}, err |-> p.err]
  ELSE IF exact
  THEN LET key == path[Len(path)]
           record == GetEntry(K.cache, key, SubSeq(path, 1, Len(path) - 1))
       IN  IF key = "" THEN [recs |-> {}, err |-> ""]
           ELSE IF record # None THEN [recs |-> {record}, err |-> ""]
           ELSE [recs |-> {}, err |-> ErrKeyNotFound]
  ELSE [recs |-> GetValuesForPathWithWildcards(K.cache, path), err |-> ""]

\* validation.IsDNS1035Label, IsDNS1123Label and IsDNS1123Subdomain of
\* k8s.io/apimachinery, on the characters of the value
LowerCase ==
  {"a", "b", "c", "d", "e", "f", "g", "h", "i", "j", "k", "l", "m",
   "n", "o", "p", "q", "r", "s", "t", "u", "v", "w", "x", "y", "z"}

AlphaNumeric == LowerCase \cup Range(Digits)

\* [a-z]([-a-z0-9]*[a-z0-9])? , at most 63 characters
IsDNS1035LabelChars(cs) ==
  /\ Len(cs) \in 1..63
  /\ cs[1] \in LowerCase
  /\ cs[Len(cs)] \in AlphaNumeric
  /\ \A i \in 1..Len(cs) : cs[i] \in AlphaNumeric \cup {"-"}

\* [a-z0-9]([-a-z0-9]*[a-z0-9])? , at most 63 characters
IsDNS1123LabelChars(cs) ==
  /\ Len(cs) \in 1..63
  /\ cs[1] \in AlphaNumeric
  /\ cs[Len(cs)] \in AlphaNumeric
  /\ \A i \in 1..Len(cs) : cs[i] \in AlphaNumeric \cup {"-"}

IsDNS1035Label(l) == IsDNS1035LabelChars(Chars(l))

IsDNS1123Label(l) == IsDNS1123LabelChars(Chars(l))

\* RFC 1123 labels joined by dots, at most 253 characters
IsDNS1123Subdomain(d) ==
  LET labels == SplitChars(Chars(d), ".", <<>>)
  IN  /\ Len(Chars(d)) <= 253
      /\ \A i \in 1..Len(labels) : IsDNS1123LabelChars(labels[i])

\* isFederationQuery with the domain compared in the order of kd.domainPath
isFederationQuery_SameOrder(cfg, path) ==
  IF \/ Len(path) # 4 + Len(domainPath)
     \/ ~IsDNS1035Label(path[1])
     \/ ~IsDNS1123Label(path[2])
     \/ ~IsDNS1123Label(path[3])
     \/ path[4] # serviceSubdomain
     \/ \E i \in 1..Len(domainPath) : domainPath[i] # path[Len(path) - Len(domainPath) + i]
  THEN [is |-> FALSE, err |-> ""]
  ELSE IF cfg = None THEN [is |-> FALSE, err |-> NilDereference]
  ELSE [is |-> path[3] \in DOMAIN cfg.Federations, err |-> ""]

\* isFederationQuery; cfg is kd.config, None while no config is installed
isFederationQuery(cfg, path) ==
  IF \/ Len(path) # 4 + Len(domainPath)
     \/ ~IsDNS1035Label(path[1])
     \/ ~IsDNS1123Label(path[2])
     \/ ~IsDNS1123Label(path[3])
     \/ path[4] # serviceSubdomain
     \/ \E i \in 1..Len(domainPath) : domainPath[i] # path[Len(path) - i + 1]
  THEN [is |-> FALSE, err |-> ""]
  ELSE IF cfg = None THEN [is |-> FALSE, err |-> NilDereference]
  ELSE [is |-> path[3] \in DOMAIN cfg.Federations, err |-> ""]

LabelZoneFailureDomain == "failure-domain.beta.kubernetes.io/zone"
LabelZoneRegion == "failure-domain.beta.kubernetes.io/region"

\* getClusterZoneAndRegion that lists the nodes on every call
getClusterZoneAndRegion_AlwaysList(nodes, api) ==
  LET labelled == IF api = "error" THEN {}
                  ELSE {i \in 1..Len(api) :
                          /\ LabelZoneFailureDomain \in DOMAIN api[i].Labels
                          /\ LabelZoneRegion \in DOMAIN api[i].Labels}
      first == CHOOSE i \in labelled : \A j \in labelled : i <= j
      node == IF labelled = {} THEN None
              ELSE api[first]
      nodes1 == IF Len(nodes) = 0 /\ node # None THEN <<node>> ELSE nodes
  IN  IF api = "error" \/ Len(api) = 0
      THEN [zone |-> "", region |-> "", err |-> "failed to retrieve the cluster nodes",
            nodes |-> nodes,
            asked |-> TRUE]
      ELSE IF node = None
      THEN [zone |-> "", region |-> "", err |-> "Could not find any nodes", nodes |-> nodes,
            asked |-> TRUE]
      ELSE IF LabelZoneFailureDomain \notin DOMAIN node.Labels
              \/ node.Labels[LabelZoneFailureDomain] = ""
      THEN [zone |-> "", region |-> "", err |-> "unknown cluster zone", nodes |-> nodes1,
            asked |-> TRUE]
      ELSE IF LabelZoneRegion \notin DOMAIN node.Labels
              \/ node.Labels[LabelZoneRegion] = ""
      THEN [zone |-> "", region |-> "", err |-> "unknown cluster region", nodes |-> nodes1,
            asked |-> TRUE]
      ELSE [zone |-> node.Labels[LabelZoneFailureDomain],
            region |-> node.Labels[LabelZoneRegion], err |-> "", nodes |-> nodes1,
            asked |-> TRUE]

\* getClusterZoneAndRegion; nodes is kd.nodesStore and api the answer of the
\* cluster API to a list of the nodes: "error", or the list; asked tells
\* whether the list was called
getClusterZoneAndRegion(nodes, api) ==
  LET labelled == IF api = "error" THEN {}
                  ELSE {i \in 1..Len(api) :
                          /\ LabelZoneFailureDomain \in DOMAIN api[i].Labels
                          /\ LabelZoneRegion \in DOMAIN api[i].Labels}
      first == CHOOSE i \in labelled : \A j \in labelled : i <= j
      node == IF Len(nodes) > 0 THEN nodes[1]
              ELSE IF labelled = {} THEN None
              ELSE api[first]
      nodes1 == IF Len(nodes) = 0 /\ node # None THEN <<node>> ELSE nodes
  IN  IF Len(nodes) = 0 /\ (api = "error" \/ Len(api) = 0)
      THEN [zone |-> "", region |-> "", err |-> "failed to retrieve the cluster nodes",
            nodes |-> nodes,
            asked |-> Len(nodes) = 0]
      ELSE IF node = None
      THEN [zone |-> "", region |-> "", err |-> "Could not find any nodes", nodes |-> nodes,
            asked |-> Len(nodes) = 0]
      ELSE IF LabelZoneFailureDomain \notin DOMAIN node.Labels
              \/ node.Labels[LabelZoneFailureDomain] = ""
      THEN [zone |-> "", region |-> "", err |-> "unknown cluster zone", nodes |-> nodes1,
            asked |-> Len(nodes) = 0]
      ELSE IF LabelZoneRegion \notin DOMAIN node.Labels
              \/ node.Labels[LabelZoneRegion] = ""
      THEN [zone |-> "", region |-> "", err |-> "unknown cluster region", nodes |-> nodes1,
            asked |-> Len(nodes) = 0]
      ELSE [zone |-> node.Labels[LabelZoneFailureDomain],
            region |-> node.Labels[LabelZoneRegion], err |-> "", nodes |-> nodes1,
            asked |-> Len(nodes) = 0]

\* a skymsg.Service literal with only Host set
HostOnly(name) == [Host |-> name, Port |-> 0, Priority |-> 0, Weight |-> 0, Ttl |-> 0]

\* federationRecords that appends the region before the zone
federationRecords_RegionFirst(cfg, nodes, api, queryPath) ==
  LET path == ReverseArray(queryPath)
      fed == isFederationQuery(cfg, path)
      local == SubSeq(path, 1, Len(path) - Len(domainPath))
      zr == getClusterZoneAndRegion(nodes, api)
      fedDomain == cfg.Federations[path[3]]
  IN  IF fed.err # "" THEN [recs |-> {}, err |-> fed.err, nodes |-> nodes]
      ELSE IF ~fed.is THEN [recs |-> {}, err |-> ErrKeyNotFound, nodes |-> nodes]
      ELSE IF zr.err # "" THEN [recs |-> {}, err |-> ErrZoneRegion, nodes |-> zr.nodes]
      ELSE IF ~IsDNS1123Subdomain(fedDomain)
      THEN [recs |-> {}, err |-> ErrFederationDomain, nodes |-> zr.nodes]
      ELSE [recs |-> {HostOnly(Join(local \o <<zr.region, zr.zone, fedDomain>>, ".") \o ".")},
            err |-> "", nodes |-> zr.nodes]

\* federationRecords; queryPath is the reversed query name
federationRecords(cfg, nodes, api, queryPath) ==
  LET path == ReverseArray(queryPath)
      fed == isFederationQuery(cfg, path)
      local == SubSeq(path, 1, Len(path) - Len(domainPath))
      zr == getClusterZoneAndRegion(nodes, api)
      fedDomain == cfg.Federations[path[3]]
  IN  IF fed.err # "" THEN [recs |-> {}, err |-> fed.err, nodes |-> nodes]
      ELSE IF ~fed.is THEN [recs |-> {}, err |-> ErrKeyNotFound, nodes |-> nodes]
      ELSE IF zr.err # "" THEN [recs |-> {}, err |-> ErrZoneRegion, nodes |-> zr.nodes]
      ELSE IF ~IsDNS1123Subdomain(fedDomain)
      THEN [recs |-> {}, err |-> ErrFederationDomain, nodes |-> zr.nodes]
      ELSE [recs |-> {HostOnly(Join(local \o <<zr.zone, zr.region, fedDomain>>, ".") \o ".")},
            err |-> "", nodes |-> zr.nodes]

isHeadlessServiceRecord(K, msg) == msg.Host \notin DOMAIN K.cip

\* serviceWithClusterIPHasEndpoints, called for a record of a service with a
\* cluster IP; es is the content of kd.endpointsStore
serviceWithClusterIPHasEndpoints(K, es, msg) ==
  LET e == es[MetaNamespaceKeyFunc(K.cip[msg.Host])]
  IN  e # None /\ Len(e.Subsets) > 0

\* recordsForFederation; K is what the call reads under its own read lock
recordsForFederation(K, es, cfg, nodes, api, records, path, exact, federationSegments) ==
  LET validRecord ==
        \E val \in records :
          \/ isHeadlessServiceRecord(K, val)
          \/ serviceWithClusterIPHasEndpoints(K, es, val)
  IN  IF validRecord
      THEN [recs |-> {HostOnly(Join(ReverseArray(path), ".") \o ".")}, err |-> "",
            nodes |-> nodes]
      ELSE IF ~exact
      THEN federationRecords(cfg, nodes, api, ReverseArray(federationSegments))
      ELSE [recs |-> {}, err |-> ErrKeyNotFound, nodes |-> nodes]

\* Records that returns the records of the local service when there are any,
\* and calls recordsForFederation only when there are none
RecordsIn_ListFirst(K1, K2, es, cfg, nodes, api, name, exact) ==
  LET fed == IF exact THEN [is |-> FALSE, err |-> ""] ELSE isFederationQuery(cfg, name)
      segments == IF fed.is THEN SubSeq(name, 1, 2) \o SubSeq(name, 4, Len(name))
                  ELSE name
      path == ReverseArray(segments)
      r == getRecordsForPath(K1, path, exact)
  IN  IF fed.err # "" THEN [recs |-> {}, err |-> fed.err, nodes |-> nodes]
      ELSE IF r.err # "" THEN [recs |-> {}, err |-> r.err, nodes |-> nodes]
      ELSE IF r.recs # {} THEN [recs |-> r.recs, err |-> "", nodes |-> nodes]
      ELSE IF fed.is
      THEN recordsForFederation(K2, es, cfg, nodes, api, r.recs, path, exact, name)
      ELSE [recs |-> {}, err |-> ErrKeyNotFound, nodes |-> nodes]

\* Records; K1 is the state getRecordsForPath reads and K2 the state
\* recordsForFederation reads (two acquisitions of the read lock)
RecordsIn(K1, K2, es, cfg, nodes, api, name, exact) ==
  LET fed == IF exact THEN [is |-> FALSE, err |-> ""] ELSE isFederationQuery(cfg, name)
      segments == IF fed.is THEN SubSeq(name, 1, 2) \o SubSeq(name, 4, Len(name))
                  ELSE name
      path == ReverseArray(segments)
      r == getRecordsForPath(K1, path, exact)
  IN  IF fed.err # "" THEN [recs |-> {}, err |-> fed.err, nodes |-> nodes]
      ELSE IF r.err # "" THEN [recs |-> {}, err |-> r.err, nodes |-> nodes]
      ELSE IF fed.is
      THEN recordsForFederation(K2, es, cfg, nodes, api, r.recs, path, exact, name)
      ELSE IF r.recs # {} THEN [recs |-> r.recs, err |-> "", nodes |-> nodes]
      ELSE [recs |-> {}, err |-> ErrKeyNotFound, nodes |-> nodes]

Records(K, es, cfg, nodes, api, name, exact) ==
  RecordsIn(K, K, es, cfg, nodes, api, name, exact)

(***************************************************************************)
(* The state.                                                              *)
(***************************************************************************)
VARIABLES
  servicesStore,        \* kd.servicesStore: key -> service, None when absent
  endpointsStore,       \* kd.endpointsStore: key -> endpoints, None when absent
  cache,                \* kd.cache
  reverseRecordMap,     \* kd.reverseRecordMap
  clusterIPServiceMap,  \* kd.clusterIPServiceMap
  config,               \* kd.config, None while no config is installed
  nodesStore,           \* kd.nodesStore
  cacheLock,            \* kd.cacheLock: the writer and the readers that hold it
  configLock,           \* kd.configLock: the writer and the readers that hold it
  run,                  \* the position and the local variables of every goroutine
  delivered,            \* the number of events each informer has delivered
  SkyDNSConfig,         \* kd.SkyDNSConfig, None while the field is nil
  start,                \* the position of Start, its timer and its ticker
  synced,               \* what HasSynced of each controller returns
  last                  \* the event handled, or the query answered, last

vars == <<servicesStore, endpointsStore, cache, reverseRecordMap, clusterIPServiceMap,
          config, nodesStore, cacheLock, configLock, run, delivered, SkyDNSConfig, start,
          synced, last>>

\* what a handler that runs from its delivery to its return leaves alone
rest ==
  <<config, nodesStore, cacheLock, configLock, run, delivered, SkyDNSConfig, start, synced>>

Locked == [cache |-> cache, rev |-> reverseRecordMap, cip |-> clusterIPServiceMap]

\* K is computed once
SetLocked(locked) ==
  \E K \in {locked} :
    /\ cache' = K.cache
    /\ reverseRecordMap' = K.rev
    /\ clusterIPServiceMap' = K.cip

NoEvent == [kind |-> "none"]

Handlers == {"services", "endpoints"}

Threads == Handlers \cup {"query", "sync"}

Idle == [pc |-> "idle"]

Controllers == {"endpointsController", "serviceController"}

\* Start has not been called: timeout and tick tell whether the channel of
\* the timer and the channel of the ticker hold a value; missed records that
\* the timer fired while a controller had not synced
NotStarted == [pc |-> "new", timeout |-> FALSE, tick |-> FALSE, missed |-> FALSE]

\* NewKubeDNS
Constructed ==
  /\ servicesStore = [k \in Keys |-> None]
  /\ endpointsStore = [k \in Keys |-> None]
  /\ cache = NewTreeCache
  /\ reverseRecordMap = EmptyMap
  /\ clusterIPServiceMap = EmptyMap
  /\ nodesStore = <<>>
  /\ cacheLock = [writer |-> "", readers |-> {}]
  /\ configLock = [writer |-> "", readers |-> {}]
  /\ run = [t \in Threads |-> Idle]
  /\ delivered = [t \in Handlers |-> 0]
  /\ SkyDNSConfig = None
  /\ start = NotStarted
  /\ synced = [c \in Controllers |-> FALSE]
  /\ last = NoEvent

Init ==
  /\ Constructed
  /\ config = None

\* the API server gives a cluster IP to one service at a time
IPsOf(s) == IF IsServiceIPSet(s) THEN Range(GetClusterIPs(s)) ELSE {}

IPsFree(ss, s) ==
  \A k \in DOMAIN ss \ {MetaNamespaceKeyFunc(s)} :
    ss[k] # None => IPsOf(ss[k]) \cap IPsOf(s) = {}

\* the API server lets an update add or drop the secondary cluster IP, and change
\* the primary one (spec.clusterIP, "None" included) only on a change of type
\* to or from ExternalName
PrimaryIPKept(old, new) ==
  \/ old.Type = ServiceTypeExternalName
  \/ new.Type = ServiceTypeExternalName
  \/ old.ClusterIP = new.ClusterIP

Event(kind, old, new) == [kind |-> kind, old |-> old]

ServiceAdd(s) ==
  /\ servicesStore[MetaNamespaceKeyFunc(s)] = None
  /\ IPsFree(servicesStore, s)
  /\ servicesStore' = [servicesStore EXCEPT ![MetaNamespaceKeyFunc(s)] = s]
  /\ SetLocked(newService(Locked, endpointsStore, s))
  /\ last' = Event("serviceAdd", None, s)
  /\ UNCHANGED <<endpointsStore, rest>>

ServiceUpdate(s) ==
  LET old == servicesStore[MetaNamespaceKeyFunc(s)]
  IN  /\ old # None
      /\ IPsFree(servicesStore, s)
      /\ PrimaryIPKept(old, s)
      /\ servicesStore' = [servicesStore EXCEPT ![MetaNamespaceKeyFunc(s)] = s]
      /\ SetLocked(updateService(Locked, endpointsStore, old, s))
      /\ last' = Event("serviceUpdate", old, s)
      /\ UNCHANGED <<endpointsStore, rest>>

ServiceDelete(k) ==
  LET old == servicesStore[k]
  IN  /\ old # None
      /\ servicesStore' = [servicesStore EXCEPT ![k] = None]
      /\ SetLocked(removeService(Locked, old))
      /\ last' = Event("serviceDelete", old, None)
      /\ UNCHANGED <<endpointsStore, rest>>

EndpointsAdd(e) ==
  /\ endpointsStore[MetaNamespaceKeyFunc(e)] = None
  /\ endpointsStore' = [endpointsStore EXCEPT ![MetaNamespaceKeyFunc(e)] = e]
  /\ SetLocked(handleEndpointAdd(Locked, servicesStore, e))
  /\ last' = Event("endpointsAdd", None, e)
  /\ UNCHANGED <<servicesStore, rest>>

EndpointsUpdate(e) ==
  LET old == endpointsStore[MetaNamespaceKeyFunc(e)]
  IN  /\ old # None
      /\ endpointsStore' = [endpointsStore EXCEPT ![MetaNamespaceKeyFunc(e)] = e]
      /\ SetLocked(handleEndpointUpdate(Locked, servicesStore, old, e))
      /\ last' = Event("endpointsUpdate", old, e)
      /\ UNCHANGED <<servicesStore, rest>>

EndpointsDelete(k) ==
  LET old == endpointsStore[k]
  IN  /\ old # None
      /\ endpointsStore' = [endpointsStore EXCEPT ![k] = None]
      /\ SetLocked(handleEndpointDelete(Locked, servicesStore, old))
      /\ last' = Event("endpointsDelete", old, None)
      /\ UNCHANGED <<servicesStore, rest>>

Next ==
  \/ \E s \in Services : ServiceAdd(s)
  \/ \E s \in Services : ServiceUpdate(s)
  \/ \E k \in Keys : ServiceDelete(k)
  \/ \E e \in EndpointsObjects : EndpointsAdd(e)
  \/ \E e \in EndpointsObjects : EndpointsUpdate(e)
  \/ \E k \in Keys : EndpointsDelete(k)

Spec == Init /\ [][Next]_vars

(***************************************************************************)
(* Queries between the events: SpecQ.  The events are those of Spec, for   *)
(* services with one cluster IP and endpoints with one address; a config   *)
(* is installed.                                                           *)
(***************************************************************************)
NewDefaultConfig == [Federations |-> EmptyMap, UpstreamNameservers |-> <<>>]

FederationConfig ==
  [Federations |-> [f \in {"myfed"} |-> "example.com"], UpstreamNameservers |-> <<>>]

QServices == {s \in Services : Len(s.ClusterIPs) <= 1}

QEndpoints ==
  {e \in EndpointsObjects : \A i \in 1..Len(e.Subsets) : Len(e.Subsets[i].Addresses) = 1}

PodLabels == {"10-1-0-1", "10-1-0-256", "10-1-0", "10--0-1", "1-2-3-4-5", "255-0-0-9", "db-0"}

PodQueries ==
  {<<l, Namespace, podSubdomain>> \o domainLabels : l \in PodLabels}
    \cup {<<"10-1-0-1", "*", podSubdomain>> \o domainLabels}

ServiceQueries ==
  {pre \o <<n, Namespace, serviceSubdomain>> \o domainLabels :
     n \in SvcNames, pre \in {<<>>, <<"_tcp">>, <<"db-0">>}}
    \cup {<<"*", Namespace, serviceSubdomain>> \o domainLabels}

FederationQueries ==
  {<<n, Namespace, "myfed", serviceSubdomain>> \o domainLabels : n \in SvcNames}

QueryNames == PodQueries \cup ServiceQueries \cup FederationQueries

Node(labels) == [Name |-> "node", Labels |-> labels]

ZonedNode ==
  Node([l \in {LabelZoneFailureDomain, LabelZoneRegion} |->
          IF l = LabelZoneFailureDomain THEN "z1" ELSE "r1"])

\* what the cluster API answers to a list of the nodes
ApiAnswers == {"error", <<>>, <<ZonedNode>>, <<Node(EmptyMap), ZonedNode>>}

\* the cluster API is asked on the federation path only
ApiAsked(name, exact) ==
  IF name \in FederationQueries /\ ~exact THEN ApiAnswers ELSE {"error"}

ErrNoReverseLookup == "does not support reverse lookup"

ErrNoServiceRecord == "must be exactly one service record"

\* ReverseRecord that answers with an entry of the map whatever the IP is
ReverseRecord_AnyEntry(K, name) ==
  LET r == ExtractIP(name)
  IN  IF ~r.ok THEN [rec |-> None, err |-> ErrNoReverseLookup]
      ELSE IF DOMAIN K.rev # {}
             THEN [rec |-> K.rev[CHOOSE ip \in DOMAIN K.rev : TRUE], err |-> ""]
      ELSE [rec |-> None, err |-> ErrNoServiceRecord]

\* ReverseRecord; name is given by its characters, K is the locked state
ReverseRecord(K, name) ==
  LET r == ExtractIP(name)
      portalIP == r.ip
  IN  IF ~r.ok THEN [rec |-> None, err |-> ErrNoReverseLookup]
      ELSE IF portalIP \in DOMAIN K.rev THEN [rec |-> K.rev[portalIP], err |-> ""]
      ELSE [rec |-> None, err |-> ErrNoServiceRecord]

\* the characters of the reverse-lookup name of the address a.b.c.d
ArpaName(a, b, c, d) ==
  Chars(d) \o <<".">> \o Chars(c) \o <<".">> \o Chars(b) \o <<".">> \o Chars(a)
    \o Chars(ArpaSuffix)

\* the names of the reverse lookups: those of the cluster IPs and of the pod
\* IPs, and the name of a cluster IP without the root dot
ReverseQueries ==
  {ArpaName("10", "0", "0", ToString(i)) : i \in 1..MaxClusterIPs}
    \cup {ArpaName("10", "1", "0", ToString(i)) : i \in 1..MaxPodIPs}
    \cup {SubSeq(ArpaName("10", "0", "0", "1"), 1, Len(ArpaName("10", "0", "0", "1")) - 1)}

\* a call of ReverseRecord(name) that runs from its start to its return
ReverseRecordCall(name) ==
  LET r == ReverseRecord(Locked, name)
  IN  /\ last' = [kind |-> "ReverseRecord", name |-> name, rec |-> r.rec, err |-> r.err,
                  before |-> Locked]
      /\ UNCHANGED <<servicesStore, endpointsStore, cache, reverseRecordMap,
                     clusterIPServiceMap, config, nodesStore, cacheLock, configLock, run, delivered,
                     SkyDNSConfig, start, synced>>

\* a call of Records(name, exact) that runs from its start to its return
RecordsCall(name, exact, api) ==
  LET r == Records(Locked, endpointsStore, config, nodesStore, api, name, exact)
  IN  /\ nodesStore' = r.nodes
      /\ last' = [kind |-> "Records", name |-> name, exact |-> exact,
                  recs |-> r.recs, err |-> r.err, before |-> Locked]
      /\ UNCHANGED <<servicesStore, endpointsStore, cache, reverseRecordMap,
                     clusterIPServiceMap, config, cacheLock, configLock, run, delivered,
                     SkyDNSConfig, start, synced>>

InitQ ==
  /\ Constructed
  /\ config \in {NewDefaultConfig, FederationConfig}

NextQ ==
  \/ \E s \in QServices : ServiceAdd(s)
  \/ \E s \in QServices : ServiceUpdate(s)
  \/ \E k \in Keys : ServiceDelete(k)
  \/ \E e \in QEndpoints : EndpointsAdd(e)
  \/ \E e \in QEndpoints : EndpointsUpdate(e)
  \/ \E k \in Keys : EndpointsDelete(k)
  \/ \E name \in QueryNames, exact \in BOOLEAN :
       \E api \in ApiAsked(name, exact) : RecordsCall(name, exact, api)
  \/ \E name \in ReverseQueries : ReverseRecordCall(name)

SpecQ == InitQ /\ [][NextQ]_vars

(***************************************************************************)
(* Calls of the functions that read no record state: SpecCalls.  A config  *)
(* is installed; every call leaves its arguments and its result in last.   *)
(***************************************************************************)
TwoFederations ==
  [Federations |-> [f \in {"myfed", "fed2"} |->
                      IF f = "myfed" THEN "example.com" ELSE "fed.example.com"],
   UpstreamNameservers |-> <<>>]

CallConfigs == {NewDefaultConfig, FederationConfig, TwoFederations}

\* names of the shape <service>.<namespace>.<federation>.svc.<domain>, right
\* and wrong in every position, and a wildcard name
FederationPaths ==
  {<<a, b, c, d>> \o tail :
     a \in {"db", "0db", "*"}, b \in {"prod", "0", "Prod"},
     c \in {"myfed", "fed2", "-fed"}, d \in {serviceSubdomain, podSubdomain},
     tail \in {domainLabels, ReverseArray(domainLabels), <<"cluster">>,
               domainLabels \o <<"local">>}}
    \cup {<<"*", "db", "prod", "myfed", serviceSubdomain>> \o domainLabels}

\* the decimal fields of the addresses that are looked up
Octets == {"0", "1", "10", "255"}

\* the characters of d.c.b.a followed by tail
ReverseName(a, b, c, d, tail) ==
  Chars(d) \o <<".">> \o Chars(c) \o <<".">> \o Chars(b) \o <<".">> \o Chars(a)
    \o Chars(tail)

\* the reverse-lookup names: those of the addresses, and names with another
\* ending
ReverseNames ==
  {ReverseName(a, b, c, d, ArpaSuffix) : a \in Octets, b \in Octets, c \in Octets, d \in Octets}
    \cup {ReverseName("10", "0", "0", "1", tail) : tail \in {".in-addr.arpa", ".ip6.arpa.", ""}}
    \cup {Chars(""), Tail(Chars(ArpaSuffix)), Chars("db")}

ExtractIPCall(name) ==
  LET r == ExtractIP(name)
  IN  /\ last' = [kind |-> "ExtractIP", name |-> name, ip |-> r.ip, ok |-> r.ok]
      /\ UNCHANGED <<servicesStore, endpointsStore, cache, reverseRecordMap,
                     clusterIPServiceMap, config, nodesStore, cacheLock, configLock, run, delivered,
                     SkyDNSConfig, start, synced>>

IsFederationQueryCall(path) ==
  LET r == isFederationQuery(config, path)
  IN  /\ last' = [kind |-> "isFederationQuery", path |-> path, is |-> r.is, err |-> r.err]
      /\ UNCHANGED <<servicesStore, endpointsStore, cache, reverseRecordMap,
                     clusterIPServiceMap, config, nodesStore, cacheLock, configLock, run, delivered,
                     SkyDNSConfig, start, synced>>

\* a node with the labels
LabelledNode(zone, region) ==
  Node([l \in {LabelZoneFailureDomain, LabelZoneRegion} |->
          IF l = LabelZoneFailureDomain THEN zone ELSE region])

ZoneOnlyNode == Node([l \in {LabelZoneFailureDomain} |-> "z1"])

\* what the cluster API answers to the lists of getClusterZoneAndRegion: the
\* nodes of the cluster change between the calls
NodeLists ==
  {"error", <<>>, <<ZonedNode>>, <<Node(EmptyMap), ZonedNode>>, <<LabelledNode("z2", "r2")>>,
   <<ZoneOnlyNode>>, <<Node(EmptyMap)>>, <<LabelledNode("", "r1")>>}

GetClusterZoneAndRegionCall(api) ==
  LET r == getClusterZoneAndRegion(nodesStore, api)
  IN  /\ nodesStore' = r.nodes
      /\ last' = [kind |-> "getClusterZoneAndRegion", api |-> api, zone |-> r.zone,
                  region |-> r.region, err |-> r.err, asked |-> r.asked,
                  before |-> nodesStore]
      /\ UNCHANGED <<servicesStore, endpointsStore, cache, reverseRecordMap,
                     clusterIPServiceMap, config, cacheLock, configLock, run, delivered,
                     SkyDNSConfig, start, synced>>

InitCalls ==
  /\ Constructed
  /\ config \in CallConfigs

NextCalls ==
  \/ \E path \in FederationPaths : IsFederationQueryCall(path)
  \/ \E name \in ReverseNames : ExtractIPCall(name)
  \/ \E api \in NodeLists : GetClusterZoneAndRegionCall(api)

SpecCalls == InitCalls /\ [][NextCalls]_vars

(***************************************************************************)
(* The start of the server: SpecStart.  The caller may set SkyDNSConfig    *)
(* before it calls Start; Start starts the controllers, loads the config   *)
(* and waits for the controllers; the config is pushed again later.  A     *)
(* nameserver is given by its text.                                        *)
(***************************************************************************)
ErrMissingPort == "missing port in address"
ErrTooManyColons == "too many colons in address"
ErrBadIP == "bad IP address"
ErrBadPort == "bad port number"

\* net.SplitHostPort on the characters of an address without brackets
SplitHostPort(cs) ==
  LET colons == {i \in 1..Len(cs) : cs[i] = ":"}
      i == CHOOSE j \in colons : TRUE
  IN  IF colons = {} THEN [host |-> <<>>, port |-> <<>>, err |-> ErrMissingPort]
      ELSE IF Cardinality(colons) > 1
      THEN [host |-> <<>>, port |-> <<>>, err |-> ErrTooManyColons]
      ELSE [host |-> SubSeq(cs, 1, i - 1), port |-> SubSeq(cs, i + 1, Len(cs)), err |-> ""]

\* strconv.Atoi on the characters of a text without a sign
Atoi(cs) ==
  IF Len(cs) > 0 /\ \A i \in 1..Len(cs) : cs[i] \in Range(Digits)
  THEN [n |-> Decimal(cs, 0), err |-> ""]
  ELSE [n |-> 0, err |-> "invalid syntax"]

\* net.JoinHostPort for a host without ':'
JoinHostPort(host, port) == host \o ":" \o port

\* util.ValidateNameserverIpAndPort; the text holds no IPv6 address
ValidateNameserverIpAndPort(nameServer) ==
  LET cs == Chars(nameServer)
      hp == SplitHostPort(cs)
      p == Atoi(hp.port)
  IN  IF ":" \notin Range(cs) /\ ParseIP(cs) THEN [ip |-> Concat(cs), port |-> "53", err |-> ""]
      ELSE IF hp.err # "" THEN [ip |-> "", port |-> "", err |-> hp.err]
      ELSE IF ~ParseIP(hp.host) THEN [ip |-> "", port |-> "", err |-> ErrBadIP]
      ELSE IF p.err # "" \/ p.n < 1 \/ p.n > 65535
      THEN [ip |-> "", port |-> "", err |-> ErrBadPort]
      ELSE [ip |-> Concat(hp.host), port |-> Concat(hp.port), err |-> ""]

\* an error returned in place of a config
Failed == [err |-> TRUE]

\* loadDefaultNameserver; resolv is what dns.ClientConfigFromFile returns for
\* /etc/resolv.conf: Failed, or the servers and the port
loadDefaultNameserver(resolv) ==
  IF resolv = Failed THEN <<>>
  ELSE [i \in 1..Len(resolv.Servers) |-> JoinHostPort(resolv.Servers[i], resolv.Port)]

\* updateConfig; cfg is kd.config and sky is kd.SkyDNSConfig before the call,
\* the result holds both after it
updateConfig(cfg, sky, nextConfig, resolv) ==
  LET ups == nextConfig.UpstreamNameservers
      invalid == {i \in 1..Len(ups) : ValidateNameserverIpAndPort(ups[i]).err # ""}
      nameServers == [i \in 1..Len(ups) |->
                        JoinHostPort(ValidateNameserverIpAndPort(ups[i]).ip,
                                     ValidateNameserverIpAndPort(ups[i]).port)]
  IN  IF sky = None THEN [config |-> nextConfig, sky |-> sky]
      ELSE IF invalid # {}
      THEN [config |-> cfg,
            sky |-> IF Len(sky.Nameservers) = 0
                    THEN [sky EXCEPT !.Nameservers = loadDefaultNameserver(resolv)]
                    ELSE sky]
      ELSE [config |-> nextConfig,
            sky |-> [sky EXCEPT !.Nameservers =
                       IF Len(nameServers) = 0 THEN loadDefaultNameserver(resolv)
                       ELSE nameServers]]

\* the upstream nameservers of the pushed configs
NameserverLists ==
  {<<>>, <<"10.0.0.10">>, <<"10.0.0.10:5353">>, <<"10.0.0.10", "10.0.0.10:0">>,
   <<"10.0.0.10:65536">>, <<"ns:53">>}

\* the configs that the config map gives
PushedConfigs ==
  {[Federations |-> f, UpstreamNameservers |-> ups] :
     f \in {EmptyMap, FederationConfig.Federations}, ups \in NameserverLists}

ResolvConfs == {Failed, [Servers |-> <<"10.0.0.2">>, Port |-> "53"]}

\* the caller sets the exported field before it calls Start
SetSkyDNSConfig(nameservers) ==
  /\ start.pc = "new"
  /\ SkyDNSConfig = None
  /\ SkyDNSConfig' = [Nameservers |-> nameservers]
  /\ last' = [kind |-> "SetSkyDNSConfig"]
  /\ UNCHANGED <<servicesStore, endpointsStore, cache, reverseRecordMap,
                 clusterIPServiceMap, config, nodesStore, cacheLock, configLock, run, delivered,
                 start, synced>>

\* Start up to its call of startConfigMapSync: the controllers run
Start ==
  /\ start.pc = "new"
  /\ start' = [start EXCEPT !.pc = "config"]
  /\ last' = [kind |-> "Start"]
  /\ UNCHANGED <<servicesStore, endpointsStore, cache, reverseRecordMap,
                 clusterIPServiceMap, config, nodesStore, cacheLock, configLock, run, delivered,
                 SkyDNSConfig, synced>>

\* startConfigMapSync; once is what kd.configSync.Once() returns.  Start goes
\* on to waitForResourceSyncedOrDie, which makes the timer and the ticker.
startConfigMapSync(once, resolv) ==
  LET u == IF once = Failed THEN [config |-> NewDefaultConfig, sky |-> SkyDNSConfig]
           ELSE updateConfig(config, SkyDNSConfig, once, resolv)
  IN  /\ start.pc = "config"
      /\ config' = u.config
      /\ SkyDNSConfig' = u.sky
      /\ start' = [start EXCEPT !.pc = "select"]
      /\ last' = [kind |-> "startConfigMapSync", nextConfig |-> once, before |-> config,
                  sky |-> SkyDNSConfig]
      /\ UNCHANGED <<servicesStore, endpointsStore, cache, reverseRecordMap,
                     clusterIPServiceMap, nodesStore, cacheLock, configLock, run, delivered, synced>>

\* syncConfigMap: the periodic sync pushes a config
syncConfigMap(nextConfig, resolv) ==
  LET u == updateConfig(config, SkyDNSConfig, nextConfig, resolv)
  IN  /\ start.pc \in {"select", "returned"}
      /\ config' = u.config
      /\ SkyDNSConfig' = u.sky
      /\ last' = [kind |-> "syncConfigMap", nextConfig |-> nextConfig, before |-> config,
                  sky |-> SkyDNSConfig]
      /\ UNCHANGED <<servicesStore, endpointsStore, cache, reverseRecordMap,
                     clusterIPServiceMap, nodesStore, cacheLock, configLock, run, delivered, start,
                     synced>>

\* a controller completes its initial list
ControllerSynced(c) ==
  /\ start.pc \in {"config", "select", "returned"}
  /\ ~synced[c]
  /\ synced' = [synced EXCEPT ![c] = TRUE]
  /\ last' = [kind |-> "ControllerSynced"]
  /\ UNCHANGED <<servicesStore, endpointsStore, cache, reverseRecordMap,
                 clusterIPServiceMap, config, nodesStore, cacheLock, configLock, run, delivered,
                 SkyDNSConfig, start>>

\* HasSynced of KubeDNS; s is what HasSynced of each controller returns
HasSynced(s) == s["endpointsController"] /\ s["serviceController"]

\* initialSyncTimeout elapses: the channel of the timer holds a value
TimerFires ==
  /\ start.pc = "select"
  /\ ~start.timeout
  /\ start' = [start EXCEPT !.timeout = TRUE, !.missed = ~HasSynced(synced)]
  /\ last' = [kind |-> "TimerFires"]
  /\ UNCHANGED <<servicesStore, endpointsStore, cache, reverseRecordMap,
                 clusterIPServiceMap, config, nodesStore, cacheLock, configLock, run, delivered,
                 SkyDNSConfig, synced>>

\* 500 ms elapse: the channel of the ticker, of capacity one, holds a value
TickerFires ==
  /\ start.pc = "select"
  /\ ~start.tick
  /\ start' = [start EXCEPT !.tick = TRUE]
  /\ last' = [kind |-> "TickerFires"]
  /\ UNCHANGED <<servicesStore, endpointsStore, cache, reverseRecordMap,
                 clusterIPServiceMap, config, nodesStore, cacheLock, configLock, run, delivered,
                 SkyDNSConfig, synced>>

\* the select of waitForResourceSyncedOrDie takes the case of the timeout
SelectTimeout ==
  /\ start.pc = "select"
  /\ start.timeout
  /\ start' = [start EXCEPT !.pc = "fatal"]
  /\ last' = [kind |-> "SelectTimeout"]
  /\ UNCHANGED <<servicesStore, endpointsStore, cache, reverseRecordMap,
                 clusterIPServiceMap, config, nodesStore, cacheLock, configLock, run, delivered,
                 SkyDNSConfig, synced>>

\* the select of waitForResourceSyncedOrDie takes the case of the ticker
SelectTick ==
  LET unsyncedResources ==
        (IF ~synced["endpointsController"] THEN {"endpoints"} ELSE {})
          \cup (IF ~synced["serviceController"] THEN {"services"} ELSE {})
  IN  /\ start.pc = "select"
      /\ start.tick
      /\ start' = [start EXCEPT !.tick = FALSE,
                                !.pc = IF unsyncedResources # {} THEN "select"
                                       ELSE "returned"]
      /\ last' = [kind |-> "SelectTick", unsynced |-> unsyncedResources]
      /\ UNCHANGED <<servicesStore, endpointsStore, cache, reverseRecordMap,
                     clusterIPServiceMap, config, nodesStore, cacheLock, configLock, run, delivered,
                     SkyDNSConfig, synced>>

\* a call of HasSynced
HasSyncedCall ==
  /\ start.pc \in {"config", "select", "returned"}
  /\ last' = [kind |-> "HasSynced", is |-> HasSynced(synced), at |-> synced]
  /\ UNCHANGED <<servicesStore, endpointsStore, cache, reverseRecordMap,
                 clusterIPServiceMap, config, nodesStore, cacheLock, configLock, run, delivered,
                 SkyDNSConfig, start, synced>>

\* a non-exact query for a name of the federation, after startConfigMapSync
FederationQueryCall(name, api) ==
  /\ start.pc \in {"select", "returned"}
  /\ RecordsCall(name, FALSE, api)

InitStart ==
  /\ Constructed
  /\ config = None

NextStart ==
  \/ \E ns \in {<<>>, <<"10.0.0.3:53">>} : SetSkyDNSConfig(ns)
  \/ Start
  \/ \E once \in {Failed} \cup PushedConfigs, resolv \in ResolvConfs :
       startConfigMapSync(once, resolv)
  \/ \E nextConfig \in PushedConfigs, resolv \in ResolvConfs :
       syncConfigMap(nextConfig, resolv)
  \/ \E c \in Controllers : ControllerSynced(c)
  \/ TimerFires
  \/ TickerFires
  \/ SelectTimeout
  \/ SelectTick
  \/ HasSyncedCall
  \/ \E name \in FederationQueries, api \in {"error", <<ZonedNode>>} :
       FederationQueryCall(name, api)

SpecStart == InitStart /\ [][NextStart]_vars

(***************************************************************************)
(* The goroutines: SpecConc.  The informer of the services and the         *)
(* informer of the endpoints each deliver one event at a time: the store   *)
(* is updated, then the handler runs.  A handler is cut where it reads the *)
(* store of the other kind and where it takes and gives back cacheLock.    *)
(* The query goroutine calls Records with names that are no federation     *)
(* queries, so that a call is one call of getRecordsForPath.               *)
(*                                                                         *)
(* run[t] holds, next to the locals of the handler, two history values:    *)
(* pre, what a query could read at the delivery, and solo, whether no      *)
(* event of the other kind was in progress or delivered since.             *)
(***************************************************************************)
Other(t) == IF t = "services" THEN "endpoints" ELSE "services"

\* the services and the endpoints of SpecConc use one cluster IP and one pod IP
ConcServices == {s \in QServices : s.ClusterIP \in {"", ClusterIPNone, ClusterIPName(1)}}

ConcEndpoints == {e \in QEndpoints : \A a \in AllAddresses(e) : a.IP = PodIPName(1)}

\* the queries of SpecConc, as <<name, exact>>: for the name of a service, and
\* for all that its namespace holds
ConcQueries ==
  {<<<<n, Namespace, serviceSubdomain>> \o domainLabels, exact>> :
     n \in SvcNames, exact \in BOOLEAN}
    \cup {<<<<Namespace, serviceSubdomain>> \o domainLabels, FALSE>>}

\* the region of removeService that holds cacheLock, as a staged write
StageRemove(s) == [kind |-> "remove", service |-> s]

\* a region of a handler that holds cacheLock
ApplyRegion(K, st) ==
  CASE st.kind = "remove" -> removeService(K, st.service)
    [] st.kind = "unreverse" -> ApplyUnreverse(K, st)
    [] OTHER -> ApplyStaged(K, st)

\* what a query can read of the guarded state
Seen == [cache |-> cache, rev |-> reverseRecordMap]

\* an event of the other kind is delivered while the handler of t runs
Disturbed(r) == IF r.pc = "idle" THEN r ELSE [r EXCEPT !.solo = FALSE]

\* the informer calls the handler of t for op on (old, new); the handler
\* starts at pc, with st staged when pc is "lock", and goes on at then
Deliver(t, op, old, new, pc, st, then) ==
  /\ run[t].pc = "idle"
  /\ delivered[t] < MaxEvents
  /\ delivered' = [delivered EXCEPT ![t] = @ + 1]
  /\ run' = [run EXCEPT ![t] = [pc |-> pc, op |-> op, old |-> old, new |-> new,
                                st |-> st, then |-> then,
                                pre |-> Seen,
                                solo |-> run[Other(t)].pc = "idle"],
                        ![Other(t)] = Disturbed(@)]
  /\ UNCHANGED <<cache, reverseRecordMap, clusterIPServiceMap, config, nodesStore,
                 cacheLock, configLock, SkyDNSConfig, start, synced, last>>

\* the handler of t has staged st: it returns when there is nothing to
\* write, and asks for cacheLock otherwise
Staged(t, staged, then) ==
  /\ \E st \in {staged} :
       run' = [run EXCEPT ![t] = IF st.kind = "none" /\ then = "idle" THEN Idle
                                 ELSE IF st.kind = "none" THEN [@ EXCEPT !.pc = then]
                                 ELSE [@ EXCEPT !.pc = "lock", !.st = st, !.then = then]]
  /\ UNCHANGED <<servicesStore, endpointsStore, cache, reverseRecordMap,
                 clusterIPServiceMap, config, nodesStore, cacheLock, configLock, delivered,
                 SkyDNSConfig, start, synced, last>>

DeliverServiceAdd(s) ==
  /\ servicesStore[MetaNamespaceKeyFunc(s)] = None
  /\ IPsFree(servicesStore, s)
  /\ servicesStore' = [servicesStore EXCEPT ![MetaNamespaceKeyFunc(s)] = s]
  /\ Deliver("services", "add", None, s, "stage", StageNothing, "idle")
  /\ UNCHANGED endpointsStore

\* updateService: removeService first on a change of type to or from ExternalName
DeliverServiceUpdate(s) ==
  LET old == servicesStore[MetaNamespaceKeyFunc(s)]
  IN  /\ old # None
      /\ IPsFree(servicesStore, s)
      /\ PrimaryIPKept(old, s)
      /\ servicesStore' = [servicesStore EXCEPT ![MetaNamespaceKeyFunc(s)] = s]
      /\ IF IsFlip(old, s)
         THEN Deliver("services", "update", old, s, "lock", StageRemove(old), "stage")
         ELSE Deliver("services", "update", old, s, "stage", StageNothing, "idle")
      /\ UNCHANGED endpointsStore

DeliverServiceDelete(k) ==
  LET old == servicesStore[k]
  IN  /\ old # None
      /\ servicesStore' = [servicesStore EXCEPT ![k] = None]
      /\ Deliver("services", "delete", old, None, "lock", StageRemove(old), "idle")
      /\ UNCHANGED endpointsStore

\* newService up to its acquisition of cacheLock
StageService ==
  /\ run["services"].pc = "stage"
  /\ Staged("services", StageNewService(endpointsStore, run["services"].new), "idle")

DeliverEndpointsAdd(e) ==
  /\ endpointsStore[MetaNamespaceKeyFunc(e)] = None
  /\ endpointsStore' = [endpointsStore EXCEPT ![MetaNamespaceKeyFunc(e)] = e]
  /\ Deliver("endpoints", "add", None, e, "stage", StageNothing, "idle")
  /\ UNCHANGED servicesStore

DeliverEndpointsUpdate(e) ==
  LET old == endpointsStore[MetaNamespaceKeyFunc(e)]
  IN  /\ old # None
      /\ endpointsStore' = [endpointsStore EXCEPT ![MetaNamespaceKeyFunc(e)] = e]
      /\ Deliver("endpoints", "update", old, e, "unstage", StageNothing, "stage")
      /\ UNCHANGED servicesStore

DeliverEndpointsDelete(k) ==
  LET old == endpointsStore[k]
  IN  /\ old # None
      /\ endpointsStore' = [endpointsStore EXCEPT ![k] = None]
      /\ Deliver("endpoints", "delete", old, None, "unstage", StageNothing, "idle")
      /\ UNCHANGED servicesStore

\* handleEndpointUpdate and handleEndpointDelete up to their acquisition of
\* cacheLock
StageUnreverse ==
  LET r == run["endpoints"]
  IN  /\ r.pc = "unstage"
      /\ Staged("endpoints",
                IF r.op = "update" THEN StageEndpointUpdate(servicesStore, r.old, r.new)
                ELSE StageEndpointDelete(servicesStore, r.old),
                r.then)

\* addDNSUsingEndpoints up to its acquisition of cacheLock
StageEndpoints ==
  /\ run["endpoints"].pc = "stage"
  /\ Staged("endpoints", StageAddDNS(servicesStore, run["endpoints"].new), "idle")

\* a handler that goes on to its writes without kd.cacheLock.Lock()
Lock_NotTaken(t) ==
  /\ run[t].pc = "lock"
  /\ run' = [run EXCEPT ![t].pc = "apply"]
  /\ UNCHANGED <<servicesStore, endpointsStore, cache, reverseRecordMap,
                 clusterIPServiceMap, config, nodesStore, cacheLock, configLock, delivered,
                 SkyDNSConfig, start, synced, last>>

\* kd.cacheLock.Lock()
Lock(t) ==
  /\ run[t].pc = "lock"
  /\ cacheLock.writer = "" /\ cacheLock.readers = {}
  /\ cacheLock' = [cacheLock EXCEPT !.writer = t]
  /\ run' = [run EXCEPT ![t].pc = "apply"]
  /\ UNCHANGED <<configLock, servicesStore, endpointsStore, cache, reverseRecordMap,
                 clusterIPServiceMap, config, nodesStore, delivered,
                 SkyDNSConfig, start, synced, last>>

\* the writes under cacheLock, without kd.cacheLock.Unlock()
Apply_NoUnlock(t) ==
  /\ run[t].pc = "apply"
  /\ SetLocked(ApplyRegion(Locked, run[t].st))
  /\ run' = [run EXCEPT ![t] = IF run[t].then = "idle" THEN Idle
                               ELSE [@ EXCEPT !.pc = run[t].then, !.then = "idle"]]
  /\ UNCHANGED <<servicesStore, endpointsStore, config, nodesStore, cacheLock, configLock,
                 delivered, SkyDNSConfig, start, synced, last>>

\* the writes under cacheLock, up to kd.cacheLock.Unlock()
Apply(t) ==
  /\ run[t].pc = "apply"
  /\ SetLocked(ApplyRegion(Locked, run[t].st))
  /\ cacheLock' = [cacheLock EXCEPT !.writer = ""]
  /\ run' = [run EXCEPT ![t] = IF run[t].then = "idle" THEN Idle
                               ELSE [@ EXCEPT !.pc = run[t].then, !.then = "idle"]]
  /\ UNCHANGED <<configLock, servicesStore, endpointsStore, config, nodesStore, delivered,
                 SkyDNSConfig, start, synced, last>>

\* Records(name, exact) is called and gets through kd.cacheLock.RLock() in
\* getRecordsForPath
RLock(name, exact) ==
  /\ run["query"].pc = "idle"
  /\ cacheLock.writer = ""
  /\ cacheLock' = [cacheLock EXCEPT !.readers = @ \cup {"query"}]
  /\ run' = [run EXCEPT !["query"] = [pc |-> "read", name |-> name, exact |-> exact]]
  /\ UNCHANGED <<configLock, servicesStore, endpointsStore, cache, reverseRecordMap,
                 clusterIPServiceMap, config, nodesStore, delivered,
                 SkyDNSConfig, start, synced, last>>

\* the read of the cache, up to kd.cacheLock.RUnlock()
RUnlock ==
  LET q == run["query"]
      r == Records(Locked, endpointsStore, config, nodesStore, "error", q.name, q.exact)
  IN  /\ q.pc = "read"
      /\ cacheLock' = [cacheLock EXCEPT !.readers = @ \ {"query"}]
      /\ run' = [run EXCEPT !["query"] = [pc |-> "done", name |-> q.name,
                                          exact |-> q.exact, recs |-> r.recs,
                                          err |-> r.err]]
      /\ UNCHANGED <<configLock, servicesStore, endpointsStore, cache, reverseRecordMap,
                     clusterIPServiceMap, config, nodesStore, delivered,
                     SkyDNSConfig, start, synced, last>>

\* Records returns
RecordsReturn ==
  /\ run["query"].pc = "done"
  /\ run' = [run EXCEPT !["query"] = Idle]
  /\ UNCHANGED <<servicesStore, endpointsStore, cache, reverseRecordMap,
                 clusterIPServiceMap, config, nodesStore, cacheLock, configLock, delivered,
                 SkyDNSConfig, start, synced, last>>

InitConc ==
  /\ Constructed
  /\ config = NewDefaultConfig

NextConc ==
  \/ \E s \in ConcServices : DeliverServiceAdd(s)
  \/ \E s \in ConcServices : DeliverServiceUpdate(s)
  \/ \E k \in Keys : DeliverServiceDelete(k)
  \/ StageService
  \/ \E e \in ConcEndpoints : DeliverEndpointsAdd(e)
  \/ \E e \in ConcEndpoints : DeliverEndpointsUpdate(e)
  \/ \E k \in Keys : DeliverEndpointsDelete(k)
  \/ StageUnreverse
  \/ StageEndpoints
  \/ \E t \in Handlers : Lock(t)
  \/ \E t \in Handlers : Apply(t)
  \/ \E q \in ConcQueries : RLock(q[1], q[2])
  \/ RUnlock
  \/ RecordsReturn

SpecConc == InitConc /\ [][NextConc]_vars

(***************************************************************************)
(* The two locks: SpecLocks.  Each informer delivers one event, to the     *)
(* handlers of SpecConc, from a state that earlier events have left.  The  *)
(* query goroutine calls Records, ReverseRecord and GetCacheAsJSON, and is *)
(* cut where it takes and gives back cacheLock or configLock for reading:  *)
(* at is the region of the code that it reads in.  The goroutine of the    *)
(* config sync pushes configs through updateConfig, which holds configLock *)
(* for writing.                                                            *)
(***************************************************************************)
\* the tests of isFederationQuery that come before kd.configLock.RLock()
passesLabelChecks(path) ==
  /\ Len(path) = 4 + Len(domainPath)
  /\ IsDNS1035Label(path[1])
  /\ IsDNS1123Label(path[2])
  /\ IsDNS1123Label(path[3])
  /\ path[4] = serviceSubdomain
  /\ \A i \in 1..Len(domainPath) : domainPath[i] = path[Len(path) - i + 1]

\* the loop of recordsForFederation under its read lock
validRecord(K, es, records) ==
  \E val \in records :
    \/ isHeadlessServiceRecord(K, val)
    \/ serviceWithClusterIPHasEndpoints(K, es, val)

\* the lock that the query holds for reading in a region
RegionLock(at) ==
  IF at \in {"isFederationQuery", "federationRecords", "Federations"} THEN "configLock"
  ELSE "cacheLock"

\* the query goes on to a region that starts with an RLock
Enter(q, at) == [q EXCEPT !.pc = "rlock", !.at = at]

\* the call returns recs and err to the DNS server, and the goroutine is free
\* for the next call
Done(q, recs, err) == Idle

\* the segments of the local service of a federation query
LocalSegments(name) == SubSeq(name, 1, 2) \o SubSeq(name, 4, Len(name))

QueryPath(q) == ReverseArray(IF q.isFed THEN LocalSegments(q.name) ELSE q.name)

\* Records after the call of getRecordsForPath has returned r
AfterGetRecords(q, r) ==
  IF r.err # "" THEN Done(q, {}, r.err)
  ELSE IF q.isFed THEN Enter([q EXCEPT !.recs = r.recs], "recordsForFederation")
  ELSE IF r.recs # {} THEN Done(q, r.recs, "")
  ELSE Done(q, {}, ErrKeyNotFound)

\* Records at its call of getRecordsForPath, which takes cacheLock unless the
\* path is a pod path or an exact path with an empty key
CallGetRecords(q) ==
  LET path == QueryPath(q)
  IN  IF isPodRecord(path) \/ (q.exact /\ path[Len(path)] = "")
      THEN AfterGetRecords(q, getRecordsForPath(Locked, path, q.exact))
      ELSE Enter(q, "getRecordsForPath")

\* what the query does in the region at while it holds the lock of the
\* region, and up to its next RLock or its return; api is the answer of the
\* cluster API if getClusterZoneAndRegion asks it
Region(q, K, es, cfg, nodes, api) ==
  CASE q.at = "isFederationQuery" ->
         LET fed == isFederationQuery(cfg, q.name)
         IN  [q |-> IF fed.err # "" THEN Done(q, {}, fed.err)
                    ELSE CallGetRecords([q EXCEPT !.isFed = fed.is]),
              nodes |-> nodes]
    [] q.at = "getRecordsForPath" ->
         [q |-> AfterGetRecords(q, getRecordsForPath(K, QueryPath(q), q.exact)),
          nodes |-> nodes]
    [] q.at = "recordsForFederation" ->
         [q |-> IF validRecord(K, es, q.recs)
                THEN Done(q, {HostOnly(Join(LocalSegments(q.name), ".") \o ".")}, "")
                ELSE IF q.exact \/ ~passesLabelChecks(q.name) THEN Done(q, {}, ErrKeyNotFound)
                ELSE Enter(q, "federationRecords"),
          nodes |-> nodes]
    [] q.at = "federationRecords" ->
         LET fed == isFederationQuery(cfg, q.name)
             zr == getClusterZoneAndRegion(nodes, api)
         IN  IF fed.err # "" THEN [q |-> Done(q, {}, fed.err), nodes |-> nodes]
             ELSE IF ~fed.is THEN [q |-> Done(q, {}, ErrKeyNotFound), nodes |-> nodes]
             ELSE IF zr.err # "" THEN [q |-> Done(q, {}, ErrZoneRegion), nodes |-> zr.nodes]
             ELSE [q |-> Enter([q EXCEPT !.zone = zr.zone, !.region = zr.region],
                               "Federations"),
                   nodes |-> zr.nodes]
    [] q.at = "Federations" ->
         LET fedDomain == IF q.name[3] \in DOMAIN cfg.Federations
                          THEN cfg.Federations[q.name[3]] ELSE ""
             local == SubSeq(q.name, 1, Len(q.name) - Len(domainPath))
         IN  [q |-> IF ~IsDNS1123Subdomain(fedDomain) THEN Done(q, {}, ErrFederationDomain)
                    ELSE Done(q, {HostOnly(Join(local \o <<q.zone, q.region, fedDomain>>, ".")
                                           \o ".")}, ""),
              nodes |-> nodes]
    [] q.at = "ReverseRecord" ->
         LET r == ReverseRecord(K, q.name)
         IN  [q |-> Done(q, {r.rec} \ {None}, r.err), nodes |-> nodes]
    [] OTHER ->
         \* GetCacheAsJSON: kd.cache.Serialize(), here the entries of the cache
         [q |-> Done(q, K.cache.entries, ""), nodes |-> nodes]

\* the locals of a call
Called(op, name, exact) ==
  [pc |-> "idle", op |-> op, name |-> name, exact |-> exact, at |-> "", isFed |-> FALSE,
   recs |-> {}, zone |-> "", region |-> ""]

\* the query goroutine calls Records(name, exact), ReverseRecord(name) or
\* GetCacheAsJSON(), and runs up to the first RLock of the call
Call(op, name, exact) ==
  LET q == Called(op, name, exact)
  IN  /\ run["query"].pc = "idle"
      /\ run' = [run EXCEPT !["query"] =
                   CASE op = "Records" ->
                          IF ~exact /\ passesLabelChecks(name) THEN Enter(q, "isFederationQuery")
                          ELSE CallGetRecords(q)
                     [] op = "ReverseRecord" ->
                          IF ExtractIP(name).ok THEN Enter(q, "ReverseRecord")
                          ELSE Done(q, {}, ErrNoReverseLookup)
                     [] OTHER -> Enter(q, "GetCacheAsJSON")]
      /\ UNCHANGED <<servicesStore, endpointsStore, cache, reverseRecordMap,
                     clusterIPServiceMap, config, nodesStore, cacheLock, configLock, delivered,
                     SkyDNSConfig, start, synced, last>>

\* kd.cacheLock.RLock() of the query
CacheRLock ==
  /\ run["query"].pc = "rlock"
  /\ RegionLock(run["query"].at) = "cacheLock"
  /\ cacheLock.writer = ""
  /\ cacheLock' = [cacheLock EXCEPT !.readers = @ \cup {"query"}]
  /\ run' = [run EXCEPT !["query"].pc = "read"]
  /\ UNCHANGED <<servicesStore, endpointsStore, cache, reverseRecordMap,
                 clusterIPServiceMap, config, nodesStore, configLock, delivered,
                 SkyDNSConfig, start, synced, last>>

\* kd.configLock.RLock() of the query
ConfigRLock ==
  /\ run["query"].pc = "rlock"
  /\ RegionLock(run["query"].at) = "configLock"
  /\ configLock.writer = ""
  /\ configLock' = [configLock EXCEPT !.readers = @ \cup {"query"}]
  /\ run' = [run EXCEPT !["query"].pc = "read"]
  /\ UNCHANGED <<servicesStore, endpointsStore, cache, reverseRecordMap,
                 clusterIPServiceMap, config, nodesStore, cacheLock, delivered,
                 SkyDNSConfig, start, synced, last>>

\* the reads of a region, up to the RUnlock of its lock, and what follows up
\* to the next RLock or the return
Read(api) ==
  LET q == run["query"]
  IN  /\ q.pc = "read"
      /\ IF RegionLock(q.at) = "cacheLock"
         THEN /\ cacheLock' = [cacheLock EXCEPT !.readers = @ \ {"query"}]
              /\ UNCHANGED configLock
         ELSE /\ configLock' = [configLock EXCEPT !.readers = @ \ {"query"}]
              /\ UNCHANGED cacheLock
      /\ \E r \in {Region(q, Locked, endpointsStore, config, nodesStore, api)} :
           /\ run' = [run EXCEPT !["query"] = r.q]
           /\ nodesStore' = r.nodes
      /\ UNCHANGED <<servicesStore, endpointsStore, cache, reverseRecordMap,
                     clusterIPServiceMap, config, delivered, SkyDNSConfig, start, synced,
                     last>>

\* the config sync delivers a changed config: syncConfigMap calls updateConfig
PushConfig(nextConfig) ==
  /\ run["sync"].pc = "idle"
  /\ nextConfig # config
  /\ run' = [run EXCEPT !["sync"] = [pc |-> "lock", nextConfig |-> nextConfig]]
  /\ UNCHANGED <<servicesStore, endpointsStore, cache, reverseRecordMap,
                 clusterIPServiceMap, config, nodesStore, cacheLock, configLock, delivered,
                 SkyDNSConfig, start, synced, last>>

\* kd.configLock.Lock() of updateConfig
ConfigLock ==
  /\ run["sync"].pc = "lock"
  /\ configLock.writer = "" /\ configLock.readers = {}
  /\ configLock' = [configLock EXCEPT !.writer = "sync"]
  /\ run' = [run EXCEPT !["sync"].pc = "apply"]
  /\ UNCHANGED <<servicesStore, endpointsStore, cache, reverseRecordMap,
                 clusterIPServiceMap, config, nodesStore, cacheLock, delivered,
                 SkyDNSConfig, start, synced, last>>

\* updateConfig under configLock, up to its deferred Unlock
ConfigUnlock ==
  /\ run["sync"].pc = "apply"
  /\ \E u \in {updateConfig(config, SkyDNSConfig, run["sync"].nextConfig, Failed)} :
       /\ config' = u.config
       /\ SkyDNSConfig' = u.sky
  /\ configLock' = [configLock EXCEPT !.writer = ""]
  /\ run' = [run EXCEPT !["sync"] = Idle]
  /\ UNCHANGED <<servicesStore, endpointsStore, cache, reverseRecordMap,
                 clusterIPServiceMap, nodesStore, cacheLock, delivered, start, synced,
                 last>>

\* the objects of the events of SpecLocks
LockServices == ConcServices

LockEndpoints == {e \in ConcEndpoints : \A a \in AllAddresses(e) : a.Hostname # ""}

\* the calls of the query goroutine: a federation query, the query for the IP
\* of a pod, the reverse lookup of the pod IP, and the cache as JSON
LockCalls ==
  {<<"Records", <<"db", Namespace, "myfed", serviceSubdomain>> \o domainLabels, FALSE>>,
   <<"Records", <<"10-1-0-1", Namespace, podSubdomain>> \o domainLabels, FALSE>>,
   <<"ReverseRecord", ArpaName("10", "1", "0", "1"), FALSE>>,
   <<"GetCacheAsJSON", <<>>, FALSE>>}

\* the state after the add of service s and then of endpoints e, None for no
\* event
AfterAdds(s, e) ==
  LET K0 == [cache |-> NewTreeCache, rev |-> EmptyMap, cip |-> EmptyMap]
      ss == [k \in Keys |-> IF s # None /\ k = MetaNamespaceKeyFunc(s) THEN s ELSE None]
      es == [k \in Keys |-> IF e # None /\ k = MetaNamespaceKeyFunc(e) THEN e ELSE None]
      K1 == IF s = None THEN K0 ELSE newService(K0, [k \in Keys |-> None], s)
      K2 == IF e = None THEN K1 ELSE handleEndpointAdd(K1, ss, e)
  IN  [ss |-> ss, es |-> es, K |-> K2]

\* no object; a service and its endpoints with the pod
LockStarts ==
  {<<None, None>>}
    \cup {<<s, e>> : s \in {x \in LockServices : x.Type # ServiceTypeExternalName},
                     e \in {x \in LockEndpoints : Len(x.Subsets) > 0}}

InitLocks ==
  \E p \in LockStarts :
   LET s == p[1]
       e == p[2]
   IN
    /\ servicesStore = AfterAdds(s, e).ss
    /\ endpointsStore = AfterAdds(s, e).es
    /\ cache = AfterAdds(s, e).K.cache
    /\ reverseRecordMap = AfterAdds(s, e).K.rev
    /\ clusterIPServiceMap = AfterAdds(s, e).K.cip
    /\ nodesStore = <<>>
    /\ cacheLock = [writer |-> "", readers |-> {}]
    /\ configLock = [writer |-> "", readers |-> {}]
    /\ run = [t \in Threads |-> Idle]
    /\ delivered = [t \in Handlers |-> 0]
    /\ SkyDNSConfig = None
    /\ start = NotStarted
    /\ synced = [c \in Controllers |-> FALSE]
    /\ last = NoEvent
    /\ config = FederationConfig

\* the informer of t has delivered no event yet
First(t) == delivered[t] = 0

HandlerStep ==
  \/ \E s \in LockServices : First("services") /\ DeliverServiceAdd(s)
  \/ \E s \in LockServices : First("services") /\ DeliverServiceUpdate(s)
  \/ \E k \in Keys : First("services") /\ DeliverServiceDelete(k)
  \/ StageService
  \/ \E e \in LockEndpoints : First("endpoints") /\ DeliverEndpointsAdd(e)
  \/ \E e \in LockEndpoints : First("endpoints") /\ DeliverEndpointsUpdate(e)
  \/ \E k \in Keys : First("endpoints") /\ DeliverEndpointsDelete(k)
  \/ StageUnreverse
  \/ StageEndpoints
  \/ \E t \in Handlers : Apply(t)

NextLocks ==
  \/ HandlerStep
  \/ \E t \in Handlers : Lock(t)
  \/ \E c \in LockCalls : Call(c[1], c[2], c[3])
  \/ CacheRLock
  \/ ConfigRLock
  \/ \E api \in {"error", <<ZonedNode>>} : Read(api)
  \/ \E cfg \in {NewDefaultConfig, FederationConfig} : PushConfig(cfg)
  \/ ConfigLock
  \/ ConfigUnlock

SpecLocks == InitLocks /\ [][NextLocks]_vars

(***************************************************************************)
(* Fair scheduling: SpecLive.  The goroutines of SpecLocks, for a headless *)
(* service that changes to the type ExternalName and back, endpoints that  *)
(* lose their addresses, a federation query, and a config sync that takes  *)
(* the federation away.                                                    *)
(***************************************************************************)
LiveServices == {s \in LockServices : ~IsServiceIPSet(s)}

LiveEndpoints == {e \in LockEndpoints : Len(e.Subsets) = 0}

LiveCall == <<"Records", <<"db", Namespace, "myfed", serviceSubdomain>> \o domainLabels, FALSE>>

InitLive ==
  /\ InitLocks
  /\ servicesStore["prod/db"] # None
  /\ servicesStore["prod/db"].ClusterIP = ClusterIPNone

NextLive ==
  \/ \E s \in LiveServices : First("services") /\ DeliverServiceUpdate(s)
  \/ StageService
  \/ \E e \in LiveEndpoints : First("endpoints") /\ DeliverEndpointsUpdate(e)
  \/ StageUnreverse
  \/ StageEndpoints
  \/ \E t \in Handlers : Lock(t)
  \/ \E t \in Handlers : Apply(t)
  \/ Call(LiveCall[1], LiveCall[2], LiveCall[3])
  \/ CacheRLock
  \/ ConfigRLock
  \/ Read(<<ZonedNode>>)
  \/ PushConfig(NewDefaultConfig)
  \/ ConfigLock
  \/ ConfigUnlock

\* a goroutine that can take a step takes one; a goroutine that waits for a
\* lock gets it if the lock is free again and again (sync.RWMutex queues its
\* waiters); no event and no call has to come
FairLive ==
  /\ WF_vars(StageService)
  /\ WF_vars(StageUnreverse)
  /\ WF_vars(StageEndpoints)
  /\ \A t \in Handlers : SF_vars(Lock(t)) /\ WF_vars(Apply(t))
  /\ SF_vars(CacheRLock)
  /\ SF_vars(ConfigRLock)
  /\ WF_vars(Read(<<ZonedNode>>))
  /\ SF_vars(ConfigLock)
  /\ WF_vars(ConfigUnlock)

SpecLive == InitLive /\ [][NextLive]_vars /\ FairLive


(***************************************************************************)
(* Two services: SpecTwo.  The events are those of Spec, for two services  *)
(* of the namespace whose endpoints may be the same pod.                   *)
(***************************************************************************)
TwoNames == {"db", "web"}

TwoKeys == {Namespace \o "/" \o n : n \in TwoNames}

\* headless services, and services with the cluster IP 10.0.0.1
TwoServices ==
  {[s EXCEPT !.Name = n] :
     s \in HeadlessServices \cup {p \in PortalServices : p.ClusterIPs = <<ClusterIPName(1)>>},
     n \in TwoNames}

\* endpoints with the pod 10.1.0.1, with or without its hostname, or no subset
TwoEndpoints ==
  {[e EXCEPT !.Name = n] :
     e \in {x \in EndpointsObjects : \A a \in AllAddresses(x) : a.IP = PodIPName(1)},
     n \in TwoNames}

InitTwo ==
  /\ servicesStore = [k \in TwoKeys |-> None]
  /\ endpointsStore = [k \in TwoKeys |-> None]
  /\ cache = NewTreeCache
  /\ reverseRecordMap = EmptyMap
  /\ clusterIPServiceMap = EmptyMap
  /\ nodesStore = <<>>
  /\ cacheLock = [writer |-> "", readers |-> {}]
  /\ configLock = [writer |-> "", readers |-> {}]
  /\ run = [t \in Threads |-> Idle]
  /\ delivered = [t \in Handlers |-> 0]
  /\ SkyDNSConfig = None
  /\ start = NotStarted
  /\ synced = [c \in Controllers |-> FALSE]
  /\ last = NoEvent
  /\ config = None

NextTwo ==
  \/ \E s \in TwoServices : ServiceAdd(s)
  \/ \E s \in TwoServices : ServiceUpdate(s)
  \/ \E k \in TwoKeys : ServiceDelete(k)
  \/ \E e \in TwoEndpoints : EndpointsAdd(e)
  \/ \E e \in TwoEndpoints : EndpointsUpdate(e)
  \/ \E k \in TwoKeys : EndpointsDelete(k)

SpecTwo == InitTwo /\ [][NextTwo]_vars

(***************************************************************************)
(* Vocabulary of the claims.                                               *)
(***************************************************************************)
ServicePath(s) == domainPath \o <<serviceSubdomain, s.Namespace, s.Name>>

NamespacePath(s) == domainPath \o <<serviceSubdomain, s.Namespace>>

IsHeadless(s) == s # None /\ s.Type # ServiceTypeExternalName /\ ~IsServiceIPSet(s)

IsPortal(s) == s # None /\ s.Type # ServiceTypeExternalName /\ IsServiceIPSet(s)

IsExternalName(s) == s # None /\ s.Type = ServiceTypeExternalName

\* the cache has the node of the service and, in it, an A record for ip
HasARecord(c, s, ip) ==
  /\ ServicePath(s) \in c.nodes
  /\ \E e \in c.entries : e.path = ServicePath(s) /\ e.val = NewServiceRecord(ip, 0)

\* the A records of the node of service s that are keyed by a hostname
HostnameKeyed(c, s) ==
  {e \in c.entries : /\ e.path = ServicePath(s)
                     /\ e.val.Port = 0
                     /\ e.key # HashServiceRecord(e.val)}

\* a host name, with or without the root dot
SameName(host, name) == host = name \/ host = Fqdn(name)

\* the state that adding the services of ss, with the endpoints es already in
\* the endpoints store, builds from the empty state
RECURSIVE AddAll(_, _, _, _)
AddAll(K, ss, es, ks) ==
  IF ks = {} THEN K
  ELSE LET k == CHOOSE x \in ks : TRUE
       IN  AddAll(IF ss[k] = None THEN K ELSE newService(K, es, ss[k]), ss, es, ks \ {k})

EmptyLocked == [cache |-> NewTreeCache, rev |-> EmptyMap, cip |-> EmptyMap]

Projection(ss, es) == AddAll(EmptyLocked, ss, es, DOMAIN ss)

\* C1: every key ip of clusterIPServiceMap maps to a service whose subtree is
\* in the cache and holds an A record with host = ip.
C1_MapEntryHasARecord ==
  \A ip \in DOMAIN clusterIPServiceMap : HasARecord(cache, clusterIPServiceMap[ip], ip)

BareOnlyIPs ==
  LET headless == {k \in DOMAIN servicesStore :
                     IsHeadless(servicesStore[k]) /\ endpointsStore[k] # None}
      bare == UNION {{a.IP : a \in {x \in AllAddresses(endpointsStore[k]) :
                                      ~getHostname(x).has}} : k \in headless}
      named == UNION {NamedIPs(endpointsStore[k]) : k \in headless}
  IN  bare \ named

\* C3: reverseRecordMap has no entry for an IP that is in a headless service's
\* current endpoints only as a hostname-less address.
C3_NoReverseForBareAddress ==
  \A ip \in BareOnlyIPs : ip \notin DOMAIN reverseRecordMap

\* what a query can read once the handler of t, run from its delivery to its
\* return with no other handler in between, is over
AfterEvent(t) ==
  LET r == run[t]
      P == [cache |-> r.pre.cache, rev |-> r.pre.rev, cip |-> clusterIPServiceMap]
      K == CASE t = "services" /\ r.op = "add" -> newService(P, endpointsStore, r.new)
             [] t = "services" /\ r.op = "update" ->
                  updateService(P, endpointsStore, r.old, r.new)
             [] t = "services" /\ r.op = "delete" -> removeService(P, r.old)
             [] t = "endpoints" /\ r.op = "add" -> handleEndpointAdd(P, servicesStore, r.new)
             [] t = "endpoints" /\ r.op = "update" ->
                  handleEndpointUpdate(P, servicesStore, r.old, r.new)
             [] OTHER -> handleEndpointDelete(P, servicesStore, r.old)
  IN  [cache |-> K.cache, rev |-> K.rev]

\* the answer of Records to the query in progress, were the cache c
AnswerOn(c) ==
  LET q == run["query"]
      r == Records([Locked EXCEPT !.cache = c], endpointsStore, config, nodesStore,
                   "error", q.name, q.exact)
  IN  [recs |-> r.recs, err |-> r.err]

\* C4: a Records query about a service that reads the cache while an update
\* handler of that service is in progress, and no endpoints event interferes,
\* returns exactly the records the service had before the update or exactly
\* those it has after it, a change of type to or from ExternalName included;
\* never a mixture, and never neither.
C4_QuerySeesPreOrPost ==
  [][(/\ run["query"].pc = "read"
      /\ run'["query"].pc = "done"
      /\ run["services"].pc # "idle"
      /\ run["services"].op = "update"
      /\ run["services"].solo)
     => [recs |-> run'["query"].recs, err |-> run'["query"].err]
          \in {AnswerOn(run["services"].pre.cache), AnswerOn(AfterEvent("services").cache)}]_vars

\* a torn pair: of the cache and the reverse index, which the event of t
\* changes both, one is as before the event and the other as after it
Torn(t) ==
  LET pre == run[t].pre
      post == AfterEvent(t)
  IN  /\ pre.cache # post.cache
      /\ pre.rev # post.rev
      /\ \/ Seen = [cache |-> pre.cache, rev |-> post.rev]
         \/ Seen = [cache |-> post.cache, rev |-> pre.rev]

\* C5: a reader that holds cacheLock while a handler is in progress, with no
\* handler of the other kind in between, never sees a torn (cache, reverse
\* index) pair: the subtree swap and the reverse-index edits of the event are
\* visible together.  During an endpoints update no reader sees the reverse
\* entries of the old snapshot gone while the cache still has its A records.
C5_NoTornPair ==
  \A t \in Handlers :
    (cacheLock.readers # {} /\ run[t].pc # "idle" /\ run[t].solo) => ~Torn(t)

\* C6: the cache, reverseRecordMap and clusterIPServiceMap are a function of
\* the final set of services and endpoints: every event sequence leaves what
\* the sequence that adds the final endpoints and then the final services leaves.
C6_Deterministic ==
  Locked = Projection(servicesStore, endpointsStore)

\* C7: after a service update that is no flip to or from ExternalName and
\* changes the cluster IPs, the two maps have no entry for a cluster IP the
\* service no longer has and an entry for each cluster IP it has.
C7_UpdateRefreshesIPs ==
  \A k \in DOMAIN servicesStore :
    LET new == servicesStore[k]
        old == last.old
    IN  /\ last.kind = "serviceUpdate"
        /\ MetaNamespaceKeyFunc(old) = k
        /\ ~IsFlip(old, new)
        /\ IPsOf(old) # IPsOf(new)
        => /\ \A ip \in IPsOf(old) \ IPsOf(new) :
                ip \notin DOMAIN reverseRecordMap /\ ip \notin DOMAIN clusterIPServiceMap
           /\ \A ip \in IPsOf(new) :
                ip \in DOMAIN reverseRecordMap /\ ip \in DOMAIN clusterIPServiceMap

\* the entries of the maps that were installed for the service s
InstalledFor(s) ==
  {ip \in DOMAIN clusterIPServiceMap :
     MetaNamespaceKeyFunc(clusterIPServiceMap[ip]) = MetaNamespaceKeyFunc(s)}
    \cup {ip \in DOMAIN reverseRecordMap :
            reverseRecordMap[ip].Host = getServiceFQDN(domain, s)}

\* the cache has neither a node nor a record at the path of service s
NothingAt(c, s) ==
  /\ ServicePath(s) \notin c.nodes
  /\ \A e \in c.entries : ~IsPrefix(ServicePath(s), e.path)
  /\ GetEntry(c, s.Name, NamespacePath(s)) = None

\* C8: after a service-delete event the cache has no node or record at the
\* service's path and neither map keeps an entry installed for the service.
C8_DeleteRemovesAll ==
  last.kind = "serviceDelete" =>
    /\ NothingAt(cache, last.old)
    /\ InstalledFor(last.old) = {}

\* the query names at and below the name of service s
QueriesAbout(s) ==
  {pre \o <<s.Name, s.Namespace, serviceSubdomain>> \o domainLabels :
     pre \in {<<>>, <<"*">>, <<"_tcp">>, <<"_http", "_tcp">>, <<"*", "_tcp">>}}

\* what Records answers in the current state
Answer(name, exact) ==
  Records(Locked, endpointsStore, config, nodesStore, "error", name, exact)

ServiceName(s) == <<s.Name, s.Namespace, serviceSubdomain>> \o domainLabels

CNAMEOf(s) == NewServiceRecord(s.ExternalName, 0)

\* the SRV payloads of the named ports of s
SRVOf(s) ==
  {[Host |-> getServiceFQDN(domain, s), Port |-> s.Ports[i].Port,
    Priority |-> defaultPriority, Weight |-> defaultWeight, Ttl |-> defaultTTL] :
     i \in {j \in 1..Len(s.Ports) : s.Ports[j].Name # "" /\ s.Ports[j].Protocol # ""}}

FlippedToPortal(k) ==
  /\ last.kind = "serviceUpdate"
  /\ MetaNamespaceKeyFunc(last.old) = k
  /\ IsExternalName(last.old)
  /\ IsPortal(servicesStore[k])

FlippedToExternalName(k) ==
  /\ last.kind = "serviceUpdate"
  /\ MetaNamespaceKeyFunc(last.old) = k
  /\ IsPortal(last.old)
  /\ IsExternalName(servicesStore[k])

\* C9: after an update that flips a service from ExternalName to ClusterIP no
\* query returns the old CNAME, the A and SRV records of the new cluster IPs
\* are returned and the reverse entry of each new cluster IP names the
\* service; after a flip from ClusterIP to ExternalName the A and SRV records
\* and the map entries of the old cluster IPs are gone and only the CNAME
\* is returned.
C9_FlipReplacesRecords ==
  \A k \in DOMAIN servicesStore :
    LET new == servicesStore[k]
        old == last.old
    IN  /\ FlippedToPortal(k) =>
             /\ \A q \in QueriesAbout(new), exact \in BOOLEAN :
                  CNAMEOf(old) \notin Answer(q, exact).recs
             /\ Answer(ServiceName(new), TRUE).err = ErrKeyNotFound
             /\ Answer(ServiceName(new), FALSE).recs =
                  {NewServiceRecord(ip, 0) : ip \in IPsOf(new)} \cup SRVOf(new)
             /\ Answer(<<"_tcp">> \o ServiceName(new), FALSE).recs = SRVOf(new)
             /\ \A ip \in IPsOf(new) :
                  /\ ip \in DOMAIN reverseRecordMap
                  /\ reverseRecordMap[ip].Host = getServiceFQDN(domain, new)
        /\ FlippedToExternalName(k) =>
             /\ \A ip \in IPsOf(old) :
                  ip \notin DOMAIN reverseRecordMap /\ ip \notin DOMAIN clusterIPServiceMap
             /\ \A q \in QueriesAbout(new), exact \in BOOLEAN :
                  Answer(q, exact).recs \subseteq {CNAMEOf(new)}
             /\ Answer(ServiceName(new), TRUE).recs = {CNAMEOf(new)}

\* a service with named ports and two cluster IPs has just replaced an
\* ExternalName service
C9_Witness ==
  \E k \in DOMAIN servicesStore :
    /\ FlippedToPortal(k)
    /\ Cardinality(IPsOf(servicesStore[k])) = 2
    /\ SRVOf(servicesStore[k]) # {}

PodShaped(name) ==
  /\ Len(name) = Len(domainPath) + 3
  /\ name[Len(name) - Len(domainPath)] = podSubdomain
  /\ \A i \in 1..Len(name) : name[i] # "*"

\* the labels that are a dashed IP, with the IP
DashedIPs == [l \in {"10-1-0-1", "255-0-0-9"} |->
                IF l = "10-1-0-1" THEN "10.1.0.1" ELSE "255.0.0.9"]

\* C10: a query for a pod path without "*" is answered, for exact and for
\* non-exact queries and whatever the cache holds, with the one payload
\* {host = the last label with '.' for '-', port = 0} when the label is a
\* dashed IP and with an error and no records when it is not; the cache and
\* the maps are as they were before the call.
C10_PodQueryPure ==
  last.kind = "Records" /\ PodShaped(last.name) =>
    /\ IF last.name[1] \in DOMAIN DashedIPs
       THEN /\ last.err = ""
            /\ last.recs = {[Host |-> DashedIPs[last.name[1]], Port |-> 0,
                             Priority |-> 10, Weight |-> 10, Ttl |-> 30]}
       ELSE last.err # "" /\ last.recs = {}
    /\ Locked = last.before

\* a pod query was answered with a record while the cache held the records
\* of a service
C10_Witness ==
  /\ last.kind = "Records"
  /\ PodShaped(last.name)
  /\ last.recs # {}
  /\ cache.entries # {}
  /\ reverseRecordMap # EmptyMap

\* the labels of FederationPaths that are RFC 1035 labels, and RFC 1123 labels
RFC1035Labels == {"db"}

RFC1123Labels == {"db", "0db", "prod", "0", "myfed", "fed2"}

FederationPattern(path, cfg) ==
  /\ Len(path) = Len(domainPath) + 4
  /\ path[1] \in RFC1035Labels
  /\ path[2] \in RFC1123Labels
  /\ path[3] \in RFC1123Labels
  /\ path[4] = "svc"
  /\ SubSeq(path, 5, Len(path)) = <<"cluster", "local">>
  /\ path[3] \in DOMAIN cfg.Federations

\* C11: isFederationQuery(path) is true if and only if path has
\* len(domainPath)+4 labels, path[0] is an RFC 1035 label, path[1] and path[2]
\* are RFC 1123 labels, path[3] is "svc", the last labels are the domain read
\* left to right, and the config's Federations has path[2]; a name with a
\* wildcard label is never a federation query.
C11_FederationPattern ==
  last.kind = "isFederationQuery" =>
    /\ last.err = ""
    /\ last.is <=> FederationPattern(last.path, config)
    /\ (\E i \in 1..Len(last.path) : last.path[i] = "*") => ~last.is

\* a name of a configured federation has been classified as a federation query
C11_Witness ==
  /\ last.kind = "isFederationQuery"
  /\ last.is
  /\ last.path = <<"db", "0", "fed2", "svc", "cluster", "local">>

\* the names of ReverseNames that do not end in ".in-addr.arpa."
OtherEndings ==
  {<<"1", ".", "0", ".", "0", ".", "1", "0", ".", "i", "n", "-", "a", "d", "d", "r",
     ".", "a", "r", "p", "a">>,
   <<"1", ".", "0", ".", "0", ".", "1", "0", ".", "i", "p", "6", ".", "a", "r", "p", "a", ".">>,
   <<"1", ".", "0", ".", "0", ".", "1", "0">>,
   <<>>,
   <<"i", "n", "-", "a", "d", "d", "r", ".", "a", "r", "p", "a", ".">>,
   <<"d", "b">>}

\* C12: for every IPv4 address a.b.c.d, ExtractIP("d.c.b.a.in-addr.arpa.") is
\* ("a.b.c.d", true), and for every name that does not end in
\* ".in-addr.arpa." it is ("", false).
C12_ExtractIP ==
  last.kind = "ExtractIP" =>
    /\ \A a \in Octets, b \in Octets, c \in Octets, d \in Octets :
         last.name = ReverseName(a, b, c, d, ArpaSuffix) =>
           last.ok /\ last.ip = a \o "." \o b \o "." \o c \o "." \o d
    /\ last.name \in OtherEndings => ~last.ok /\ last.ip = ""

\* the name of an address whose fields differ has been looked up
C12_Witness ==
  /\ last.kind = "ExtractIP"
  /\ last.name = ReverseName("10", "0", "255", "1", ArpaSuffix)
  /\ last.ip = "10.0.255.1"

\* the query name is one of a federation of the config
Federated(name) == name \in FederationQueries /\ name[3] \in DOMAIN config.Federations

\* the path of the local service of a query name
LocalPath(name) ==
  ReverseArray(IF Federated(name) THEN SubSeq(name, 1, 2) \o SubSeq(name, 4, Len(name))
               ELSE name)

\* what the wildcard lookup on the path of the last query found
LocalList == GetValuesForPathWithWildcards(last.before.cache, LocalPath(last.name))

\* the CNAME of the local service, and the redirect to the federation
LocalCNAME(name) == [Host |-> Join(ReverseArray(LocalPath(name)), ".") \o ".", Port |-> 0,
                     Priority |-> 0, Weight |-> 0, Ttl |-> 0]

RedirectCNAME(name) ==
  [Host |-> Join(SubSeq(name, 1, 4), ".") \o ".z1.r1." \o config.Federations[name[3]] \o ".",
   Port |-> 0, Priority |-> 0, Weight |-> 0, Ttl |-> 0]

\* C13, as claimed: for every non-exact, non-pod query, whenever the wildcard
\* lookup on the query's path (the path of the local service for a federated
\* name) finds payloads, Records returns exactly those.
C13_ListReturnedWhenNonEmpty ==
  (last.kind = "Records" /\ ~last.exact /\ ~PodShaped(last.name) /\ LocalList # {})
    => last.err = "" /\ last.recs = LocalList

\* C13, amended: for every non-exact, non-pod query that is not federated,
\* Records returns exactly the payloads the wildcard lookup finds when there
\* are any, and NotFound when there are none; for a federated query the
\* federation fallback is applied to the payloads of the local service also
\* when there are some, and the answer is the one CNAME of the local service
\* or what the redirect gives, never the list.
C13_ListReturnedUnlessFederated ==
  (last.kind = "Records" /\ ~last.exact /\ ~PodShaped(last.name)) =>
    IF Federated(last.name)
    THEN \/ LocalList # {} /\ last.err = "" /\ last.recs = {LocalCNAME(last.name)}
         \/ last.err = "" /\ last.recs = {RedirectCNAME(last.name)}
         \/ last.err \in {ErrZoneRegion, ErrFederationDomain} /\ last.recs = {}
    ELSE IF LocalList # {} THEN last.err = "" /\ last.recs = LocalList
    ELSE last.err = ErrKeyNotFound /\ last.recs = {}

\* a federated query whose local service has records was answered
C13_Witness ==
  /\ last.kind = "Records"
  /\ ~last.exact
  /\ Federated(last.name)
  /\ LocalList # {}
  /\ last.recs = {LocalCNAME(last.name)}

\* the key of the local service of a federated query name
LocalKey(name) == name[2] \o "/" \o name[1]

\* the endpoints store holds an endpoints object with a subset under the key
HasSubsets(key) == endpointsStore[key] # None /\ Len(endpointsStore[key].Subsets) > 0

\* the last call was a non-exact federated query for a service with a cluster IP
FederatedClusterIPQuery ==
  /\ last.kind = "Records"
  /\ ~last.exact
  /\ Federated(last.name)
  /\ servicesStore[LocalKey(last.name)] # None
  /\ IsServiceIPSet(servicesStore[LocalKey(last.name)])

\* C14: a non-exact federated query whose local service has a cluster IP is
\* answered with the one CNAME of the local service exactly when the endpoints
\* store holds an endpoints object of the service with at least one subset;
\* without such an object the answer is what the federation redirect gives,
\* also when the service has named ports and so SRV records.
C14_LocalCNAMEIffEndpoints ==
  FederatedClusterIPQuery =>
    IF HasSubsets(LocalKey(last.name))
    THEN last.err = "" /\ last.recs = {LocalCNAME(last.name)}
    ELSE \/ last.err = "" /\ last.recs = {RedirectCNAME(last.name)}
         \/ last.err \in {ErrZoneRegion, ErrFederationDomain} /\ last.recs = {}

\* the last call asked for a name of the federation myfed while the services
\* store held no service of that name
FederationQueryNoService ==
  /\ last.kind = "Records"
  /\ last.name \in FederationQueries
  /\ "myfed" \in DOMAIN config.Federations
  /\ servicesStore[LocalKey(last.name)] = None

\* the nodes store holds the node with zone z1 and region r1: it held it before
\* the call, or the cluster API listed it during the call
ZoneKnown == nodesStore = <<ZonedNode>>

\* C15: with the federation myfed -> example.com installed, a node of zone z1
\* and region r1 and no service db in prod, a non-exact query for
\* db.prod.myfed.svc.cluster.local returns exactly one payload, whose host is
\* db.prod.myfed.svc.z1.r1.example.com. ; the exact query returns NotFound.
C15_FederationRedirect ==
  FederationQueryNoService =>
    IF last.exact
    THEN last.err = ErrKeyNotFound /\ last.recs = {}
    ELSE ZoneKnown =>
           /\ last.err = ""
           /\ last.recs = {HostOnly("db.prod.myfed.svc.z1.r1.example.com.")}

\* the redirect was returned for a name without a local service
C15_Witness ==
  /\ FederationQueryNoService
  /\ ~last.exact
  /\ ZoneKnown
  /\ last.recs = {HostOnly("db.prod.myfed.svc.z1.r1.example.com.")}

\* the service of the key is a cluster-IP service with one cluster IP
PortalIn(store, key) ==
  /\ store[key] # None
  /\ IsServiceIPSet(store[key])
  /\ Len(store[key].ClusterIPs) = 1

\* the A payload of an address and the SRV payload of a port of db in prod
APayload(ip) == [Host |-> ip, Port |-> 0, Priority |-> 10, Weight |-> 10, Ttl |-> 30]

SRVPayload(p) ==
  [Host |-> "db.prod.svc.cluster.local", Port |-> p, Priority |-> 10, Weight |-> 10,
   Ttl |-> 30]

\* the ports of the service that have a name and a protocol
SRVPorts(s) ==
  {s.Ports[i].Port : i \in {j \in 1..Len(s.Ports) :
                               s.Ports[j].Name # "" /\ s.Ports[j].Protocol # ""}}

\* C16: while the services store holds a cluster-IP service db in prod with
\* one cluster IP ip, added by the service-add handler, the non-exact query
\* db.prod.svc.cluster.local returns exactly the A payload {ip, 0} and one SRV
\* payload {db.prod.svc.cluster.local, p} for each port p with a name and a
\* protocol; the non-exact query _tcp.db.prod.svc.cluster.local returns only
\* those SRV payloads; the reverse lookup of ip returns the payload with host
\* db.prod.svc.cluster.local.
C16_PortalRecords ==
  LET s == servicesStore["prod/db"]
  IN  PortalIn(servicesStore, "prod/db") =>
        /\ (last.kind = "Records" /\ ~last.exact
               /\ last.name = <<"db", "prod", "svc", "cluster", "local">>)
            => /\ last.err = ""
               /\ last.recs = {APayload(s.ClusterIP)} \cup {SRVPayload(p) : p \in SRVPorts(s)}
        /\ (last.kind = "Records" /\ ~last.exact
               /\ last.name = <<"_tcp", "db", "prod", "svc", "cluster", "local">>)
            => /\ last.err = ""
               /\ last.recs = {SRVPayload(p) : p \in SRVPorts(s)}
        /\ (last.kind = "ReverseRecord"
               /\ last.name = ArpaName("10", "0", "0", "1") /\ s.ClusterIP = "10.0.0.1")
            => /\ last.err = ""
               /\ last.rec = APayload("db.prod.svc.cluster.local")

\* the name of a cluster-IP service with ports was asked for and answered
C16_Witness ==
  /\ PortalIn(servicesStore, "prod/db")
  /\ last.kind = "Records"
  /\ ~last.exact
  /\ last.name = <<"db", "prod", "svc", "cluster", "local">>
  /\ last.recs = {APayload("10.0.0.1"), SRVPayload(80)}

\* the key of the endpoints object that the step delivers
DeliveredKey ==
  IF last'.old # None THEN MetaNamespaceKeyFunc(last'.old)
  ELSE CHOOSE k \in Keys : endpointsStore[k] = None /\ endpointsStore'[k] # None

\* the step is an endpoints add or update whose service is absent, has a
\* cluster IP, or is of type ExternalName
DroppedEndpointsEvent ==
  /\ last'.kind \in {"endpointsAdd", "endpointsUpdate"}
  /\ LET svc == servicesStore[DeliveredKey]
     IN  \/ svc = None
         \/ IsServiceIPSet(svc)
         \/ svc.Type = ServiceTypeExternalName

\* C20: an endpoints add or update whose owning service is absent, is not
\* headless or is of type ExternalName leaves the cache, reverseRecordMap and
\* clusterIPServiceMap as they were.
C20_DroppedEndpointsChangeNothing ==
  [][DroppedEndpointsEvent => UNCHANGED <<cache, reverseRecordMap, clusterIPServiceMap>>]_vars

\* the nameservers of the pushed configs that are no valid ip[:port]
InvalidNameservers == {"10.0.0.10:0", "10.0.0.10:65536", "ns:53"}

\* the config pushed last held an invalid upstream nameserver
InvalidPushed ==
  /\ last.kind \in {"startConfigMapSync", "syncConfigMap"}
  /\ last.nextConfig # Failed
  /\ Range(last.nextConfig.UpstreamNameservers) \cap InvalidNameservers # {}

\* C17, as claimed: when the pushed config holds an upstream nameserver that
\* is no valid ip[:port], updateConfig leaves the installed config as it was.
C17_InvalidUpdateRejected == InvalidPushed => config = last.before

\* C18: once startConfigMapSync has returned a config is installed, and a
\* Records call that reaches isFederationQuery reads a config that is set.
C18_ConfigInstalledAfterSync ==
  /\ start.pc \in {"select", "returned", "fatal"} => config # None
  /\ last.kind = "Records" => last.err # NilDereference

\* Start returned
Returned == start.pc = "returned"

\* C19: Start returns only when both controllers report HasSynced; when they
\* have not both synced before initialSyncTimeout elapses the process ends
\* with a fatal error and Start does not return; HasSynced() is true exactly
\* when both controllers have synced.
C19_StartWaitsForSync ==
  /\ Returned => synced["endpointsController"] /\ synced["serviceController"]
  /\ start.missed => ~Returned
  /\ last.kind = "HasSynced"
       => (last.is <=> last.at["endpointsController"] /\ last.at["serviceController"])

\* the addresses of an endpoints object
AddressesOf(e) ==
  UNION {Range(e.Subsets[i].Addresses) : i \in 1..Len(e.Subsets)}

\* the IPs of the addresses of an endpoints object that carry a hostname
WithHostname(e) == {a.IP : a \in {x \in AddressesOf(e) : x.Hostname # ""}}

\* the services store holds a headless service under the key
HeadlessIn(store, key) == store[key] # None /\ store[key].ClusterIP = ClusterIPNone

\* the PTR payload of a hostname of db in prod
PTRPayload(h) ==
  [Host |-> h \o ".db.prod.svc.cluster.local.", Port |-> 0, Priority |-> 10,
   Weight |-> 10, Ttl |-> 30]

\* C21: after an endpoints update of a headless service, reverseRecordMap has
\* no entry for an IP that carried a hostname in the old endpoints and is
\* absent from the new ones or carries none there, and has the entry of the
\* new hostname for every IP that carries a hostname in the new endpoints.
C21_UpdateRefreshesPTR ==
  (last.kind = "endpointsUpdate" /\ HeadlessIn(servicesStore, "prod/db")) =>
    LET new == endpointsStore["prod/db"]
    IN  /\ \A ip \in WithHostname(last.old) \ WithHostname(new) :
             ip \notin DOMAIN reverseRecordMap
        /\ \A a \in AddressesOf(new) :
             a.Hostname # "" =>
               /\ a.IP \in DOMAIN reverseRecordMap
               /\ reverseRecordMap[a.IP] = PTRPayload(a.Hostname)

\* an update took the hostname from one address and gave it to another
C21_Witness ==
  /\ last.kind = "endpointsUpdate"
  /\ HeadlessIn(servicesStore, "prod/db")
  /\ WithHostname(last.old) = {"10.1.0.1"}
  /\ WithHostname(endpointsStore["prod/db"]) = {"10.1.0.2"}
  /\ DOMAIN reverseRecordMap = {"10.1.0.2"}

\* reverseRecordMap without the entries of the IPs
WithoutEntries(m, ips) == [ip \in DOMAIN m \ ips |-> m[ip]]

\* C22: an endpoints delete for a headless service removes from
\* reverseRecordMap the entries of the deleted addresses that had a hostname
\* and leaves the other entries and clusterIPServiceMap as they were; when the
\* service is absent or has a cluster IP the handler changes nothing.
C22_DeleteDropsPTR ==
  [][last'.kind = "endpointsDelete" =>
       LET key == MetaNamespaceKeyFunc(last'.old)
           svc == servicesStore[key]
       IN  /\ HeadlessIn(servicesStore, key) =>
                /\ reverseRecordMap' = WithoutEntries(reverseRecordMap, WithHostname(last'.old))
                /\ clusterIPServiceMap' = clusterIPServiceMap
           /\ (svc = None \/ IsServiceIPSet(svc)) =>
                UNCHANGED <<cache, reverseRecordMap, clusterIPServiceMap>>]_vars

\* the endpoints of a headless service were deleted and the PTR entry of
\* their named address went with them
C22_Witness ==
  /\ last.kind = "endpointsDelete"
  /\ HeadlessIn(servicesStore, "prod/db")
  /\ WithHostname(last.old) = {"10.1.0.1"}
  /\ reverseRecordMap = EmptyMap

\* one service event and one endpoints event were delivered, both handlers
\* have returned, and the stores hold a headless service and its endpoints:
\* the events were the add of the service and the add of the endpoints
BothAdded ==
  /\ delivered = [t \in Handlers |-> 1]
  /\ \A t \in Handlers : run[t].pc = "idle"
  /\ HeadlessIn(servicesStore, "prod/db")
  /\ endpointsStore["prod/db"] # None

\* the IPs of the A records in the node of the service
ARecordIPs(c, s) == {e.val.Host : e \in {x \in c.entries : x.path = ServicePath(s) /\ x.val.Port = 0}}

\* C23: after the add of a headless service and the add of its endpoints, in
\* whatever way the two handlers interleave, the cache holds the subtree of
\* the service with the A records of the endpoints once both have returned.
C23_HeadlessRecordsOnceBothAdded ==
  BothAdded =>
    LET S == servicesStore["prod/db"]
        E == endpointsStore["prod/db"]
    IN  /\ \A a \in AddressesOf(E) : HasARecord(cache, S, a.IP)
        /\ ARecordIPs(cache, S) = {a.IP : a \in AddressesOf(E)}

\* both were added and the cache holds the A record of the address
C23_Witness ==
  /\ BothAdded
  /\ AddressesOf(endpointsStore["prod/db"]) # {}
  /\ ARecordIPs(cache, servicesStore["prod/db"]) = {"10.1.0.1"}

\* the list of the nodes gives no node with both labels
NoLabelledNode(api) ==
  IF api = "error" THEN TRUE ELSE api \in {<<>>, <<ZoneOnlyNode>>, <<Node(EmptyMap)>>}

\* C24: once the nodes store holds a node, a call of getClusterZoneAndRegion
\* takes zone and region from that node, does not list the nodes of the
\* cluster and returns the same whatever the cluster's nodes are by then; with
\* an empty store and a list that fails, is empty or has no node with both
\* labels, the call returns an error and stores nothing.
C24_StoredNodeAnswers ==
  last.kind = "getClusterZoneAndRegion" =>
    /\ last.before # <<>> =>
          /\ ~last.asked
          /\ nodesStore = last.before
          /\ \/ /\ last.before = <<ZonedNode>>
                /\ last.err = "" /\ last.zone = "z1" /\ last.region = "r1"
             \/ /\ last.before = <<LabelledNode("z2", "r2")>>
                /\ last.err = "" /\ last.zone = "z2" /\ last.region = "r2"
             \/ /\ last.before = <<LabelledNode("", "r1")>>
                /\ last.err # ""
    /\ (last.before = <<>> /\ NoLabelledNode(last.api)) =>
          last.err # "" /\ nodesStore = <<>>

\* the store held the node of z1 when the cluster had only the node of z2
C24_Witness ==
  /\ last.kind = "getClusterZoneAndRegion"
  /\ last.before = <<ZonedNode>>
  /\ last.api = <<LabelledNode("z2", "r2")>>
  /\ last.zone = "z1"

\* the IP that a reverse-lookup name stands for, "" when it has not the suffix
\* .in-addr.arpa.
ReverseIP(name) ==
  LET named == {ip \in {"10.0.0." \o ToString(i) : i \in 1..MaxClusterIPs}
                         \cup {"10.1.0." \o ToString(i) : i \in 1..MaxPodIPs} :
                  \E i \in 1..9 :
                    \/ ip = "10.0.0." \o ToString(i) /\ name = ArpaName("10", "0", "0", ToString(i))
                    \/ ip = "10.1.0." \o ToString(i) /\ name = ArpaName("10", "1", "0", ToString(i))}
  IN  IF named = {} THEN "" ELSE CHOOSE ip \in named : TRUE

\* C26: ReverseRecord(name) returns the payload that reverseRecordMap holds for
\* the IP of the name when the name ends in .in-addr.arpa. and the map has an
\* entry for that IP at the time of the read, and only then; otherwise it
\* returns an error and no payload; the map is the same after the call.
C26_ReverseRecordIffEntry ==
  last.kind = "ReverseRecord" =>
    LET ip == ReverseIP(last.name)
        found == ip # "" /\ ip \in DOMAIN last.before.rev
    IN  /\ found => last.err = "" /\ last.rec = last.before.rev[ip]
        /\ ~found => last.err # "" /\ last.rec = None
        /\ reverseRecordMap = last.before.rev

\* a reverse lookup of a pod IP with a hostname while the map also holds the
\* entry of a cluster IP
C26_Witness ==
  /\ last.kind = "ReverseRecord"
  /\ last.name = ArpaName("10", "1", "0", "1")
  /\ last.err = ""
  /\ last.rec = PTRPayload("db-0")
  /\ "10.0.0.1" \in DOMAIN reverseRecordMap

\* the handlers have returned from the events of a headless service and of
\* its endpoints, the last of the endpoints being an update
UpdatedAndServed ==
  /\ delivered["endpoints"] = 2
  /\ delivered["services"] >= 1
  /\ \A t \in Handlers : run[t].pc = "idle"
  /\ HeadlessIn(servicesStore, "prod/db")
  /\ endpointsStore["prod/db"] # None

\* C27: when a service handler for a headless service and an endpoints-update
\* handler for the same service have both returned, however they interleaved,
\* the A records of the service and the reverse entries of the pod IPs are
\* those of the endpoints that the endpoints store holds.
C27_LatestSnapshotInstalled ==
  UpdatedAndServed =>
    LET S == servicesStore["prod/db"]
        E == endpointsStore["prod/db"]
    IN  /\ ARecordIPs(cache, S) = {a.IP : a \in AddressesOf(E)}
        /\ \A i \in 1..MaxPodIPs :
             IF PodIPName(i) \in WithHostname(E)
             THEN PodIPName(i) \in DOMAIN reverseRecordMap
             ELSE PodIPName(i) \notin DOMAIN reverseRecordMap

\* the step deletes the endpoints of the headless service whose delete was
\* the event before, or the headless service whose endpoints were deleted by
\* the event before; both stores are without the object then
DeletesTheSecond ==
  /\ servicesStore'["prod/db"] = None /\ endpointsStore'["prod/db"] = None
  /\ \/ /\ last.kind = "serviceDelete" /\ last'.kind = "endpointsDelete"
        /\ last.old.ClusterIP = ClusterIPNone
     \/ /\ last.kind = "endpointsDelete" /\ last'.kind = "serviceDelete"
        /\ last'.old.ClusterIP = ClusterIPNone

DeletedPair ==
  IF last'.kind = "endpointsDelete" THEN [service |-> last.old, endpoints |-> last'.old]
  ELSE [service |-> last'.old, endpoints |-> last.old]

\* C28: after the delete of a headless service and the delete of its
\* endpoints, in either order, reverseRecordMap has no entry for an address
\* of the endpoints and the cache has nothing at the path of the service.
C28_NothingLeftOfDeletedPair ==
  [][DeletesTheSecond =>
       /\ \A a \in AddressesOf(DeletedPair.endpoints) : a.IP \notin DOMAIN reverseRecordMap'
       /\ NothingAt(cache', DeletedPair.service)]_vars

\* the IPs whose PTR entry the headless service under key needs: those of
\* the addresses with a hostname of its endpoints
NeededPTR(ss, es, key) ==
  IF HeadlessIn(ss, key) /\ es[key] # None THEN WithHostname(es[key]) ELSE {}

\* C29: an endpoints update or delete for one service does not remove the PTR
\* entry of an address that is, with a hostname, an endpoint of another
\* headless service.
C29_OtherServiceKeepsPTR ==
  [][last'.kind \in {"endpointsUpdate", "endpointsDelete"} =>
       \A key \in TwoKeys \ {MetaNamespaceKeyFunc(last'.old)} :
         \A ip \in NeededPTR(servicesStore, endpointsStore, key) :
           ip \in DOMAIN reverseRecordMap => ip \in DOMAIN reverseRecordMap']_vars

\* the step is the writes of handler t, up to its Unlock
Writes(t) == run[t].pc = "apply" /\ run'[t] # run[t]

\* the step is the reads of the query in a region of cacheLock, up to its
\* RUnlock: getRecordsForPath, the loop of recordsForFederation,
\* ReverseRecord or GetCacheAsJSON
ReadsGuarded ==
  /\ run["query"].pc = "read"
  /\ RegionLock(run["query"].at) = "cacheLock"
  /\ run'["query"] # run["query"]

\* C25: the cache, reverseRecordMap and clusterIPServiceMap change only in
\* the writes of a handler, a handler writes while it holds cacheLock for
\* writing and no reader holds it, and a query reads them while it holds
\* cacheLock for reading and no writer holds it.
C25_GuardedUnderCacheLock ==
  [][/\ Locked' # Locked => \E t \in Handlers : Writes(t)
     /\ \A t \in Handlers :
          Writes(t) => cacheLock.writer = t /\ cacheLock.readers = {}
     /\ ReadsGuarded => "query" \in cacheLock.readers /\ cacheLock.writer = ""]_vars

\* the endpoints handler holds cacheLock for its writes while the query
\* waits for it at the start of the loop of recordsForFederation
C25_Witness ==
  /\ cacheLock.writer = "endpoints"
  /\ run["endpoints"].pc = "apply"
  /\ run["query"].pc = "rlock"
  /\ run["query"].at = "recordsForFederation"

\* goroutine t holds the lock, for writing or for reading
Holds(lock, t) == lock.writer = t \/ t \in lock.readers

\* goroutine t is at an acquisition of cacheLock
AtCacheLock(t) ==
  \/ t \in Handlers /\ run[t].pc = "lock"
  \/ t = "query" /\ run[t].pc = "rlock" /\ RegionLock(run[t].at) = "cacheLock"

\* goroutine t is at an acquisition of configLock
AtConfigLock(t) ==
  \/ t = "sync" /\ run[t].pc = "lock"
  \/ t = "query" /\ run[t].pc = "rlock" /\ RegionLock(run[t].at) = "configLock"

\* C30: no goroutine is at an acquisition of cacheLock while it holds
\* cacheLock, no goroutine holds cacheLock and configLock together or asks
\* for one while it holds the other, a goroutine that is idle holds no lock,
\* and under fair scheduling every handler, every query and every config
\* update that has started returns.
C30_LocksReleasedAndCallsReturn ==
  /\ [](\A t \in Threads :
          /\ AtCacheLock(t) => ~Holds(cacheLock, t) /\ ~Holds(configLock, t)
          /\ AtConfigLock(t) => ~Holds(cacheLock, t) /\ ~Holds(configLock, t)
          /\ ~(Holds(cacheLock, t) /\ Holds(configLock, t))
          /\ run[t].pc = "idle" => ~Holds(cacheLock, t) /\ ~Holds(configLock, t))
  /\ \A t \in Threads : (run[t].pc # "idle") ~> (run[t].pc = "idle")

\* updateService has removed the old records and waits for cacheLock to
\* install the new ones, while the federation query holds it for reading
C30_Witness ==
  /\ run["services"].pc = "lock"
  /\ run["services"].op = "update"
  /\ IsFlip(run["services"].old, run["services"].new)
  /\ run["services"].st.kind # "remove"
  /\ run["query"].pc = "read"
  /\ run["query"].at = "recordsForFederation"
  /\ "query" \in cacheLock.readers

====
